---------------------------- MODULE Spec2Model ----------------------------
(***************************************************************************)
(* A model of the rou3 router: a trie of route patterns with a side map    *)
(* for purely static paths, and the four operations on it (add_route,      *)
(* remove_route, find_route, find_all_routes).                             *)
(*                                                                         *)
(* Strings of the program that are split, stripped or searched (paths,     *)
(* segments, parameter names and values) are sequences of one-character    *)
(* strings; strings that are only compared (methods, payloads, error       *)
(* reasons) are TLA+ strings.  Option<T> is a sequence of length 0 or 1,   *)
(* Result<T, E> a record with an ok flag, a map a function whose domain is *)
(* its key set.                                                            *)
(***************************************************************************)
EXTENDS Naturals, Sequences, FiniteSets, TLC

VARIABLES root, static_map, last, log, work, calls

vars == <<root, static_map, last, log, work, calls>>

---------------------------------------------------------------------------
(* Option and Result *)

None == <<>>

Some(x) == <<x>>

IsSome(o) == Len(o) = 1

Unwrap(o) == o[1]

Ok(v) == [ok |-> TRUE, val |-> v]

Err(e) == [ok |-> FALSE, err |-> e]

(* maps: AHashMap<K, V> as a function on its key set *)
EmptyMap == <<>>

MapInsert(f, k, v) == [x \in (DOMAIN f) \cup {k} |-> IF x = k THEN v ELSE f[x]]

MapRemove(f, k) == [x \in (DOMAIN f) \ {k} |-> f[x]]

---------------------------------------------------------------------------
(* str primitives used by the program, on sequences of characters *)

Last(s) == s[Len(s)]

ends_with(s, c) == Len(s) > 0 /\ Last(s) = c

starts_with(s, p) == Len(s) >= Len(p) /\ SubSeq(s, 1, Len(p)) = p

(* str::strip_prefix: Some(rest) when s starts with p, None otherwise *)
strip_prefix(s, p) == IF starts_with(s, p) THEN Some(SubSeq(s, Len(p) + 1, Len(s))) ELSE None

(* str::strip_suffix('?').unwrap_or(s) *)
strip_suffix_or(s, c) == IF ends_with(s, c) THEN SubSeq(s, 1, Len(s) - 1) ELSE s

(* str::contains([':', '*']) *)
contains_any(s, cs) == \E i \in 1..Len(s) : s[i] \in cs

RECURSIVE split_from(_, _, _)
split_from(s, i, cur) ==
    IF i > Len(s) THEN <<cur>>
    ELSE IF s[i] = "/" THEN <<cur>> \o split_from(s, i + 1, <<>>)
    ELSE split_from(s, i + 1, Append(cur, s[i]))

(* str::split('/'): the pieces between separators, empty ones included *)
split(s) == split_from(s, 1, <<>>)

(* a filter that keeps the empty pieces *)
filter_keep_all(pieces) == pieces

(* .filter(|s| !s.is_empty()) *)
filter_non_empty(pieces) == SelectSeq(pieces, LAMBDA x : Len(x) > 0)

RECURSIVE join(_, _)
join(segs, sep) ==
    IF Len(segs) = 0 THEN <<>>
    ELSE IF Len(segs) = 1 THEN segs[1]
    ELSE segs[1] \o sep \o join(Tail(segs), sep)

---------------------------------------------------------------------------
(* operations/util.rs *)

normalize(path) ==
    IF Len(path) = 0 THEN <<>>
    ELSE LET segments == filter_non_empty(split(path))
         IN IF Len(segments) = 0 THEN <<>> ELSE join(segments, <<"/">>)

split_path(normalized_path) == filter_non_empty(split(normalized_path))

(* types.rs: ParamEntry::Index(usize, String, bool) and ::Wildcard(..);   *)
(* the index is the program's zero-based segment index                     *)
Index(i, name, opt) == [kind |-> "Index", idx |-> i, name |-> name, opt |-> opt]

Wildcard(i, name, opt) == [kind |-> "Wildcard", idx |-> i, name |-> name, opt |-> opt]

(* types.rs: MethodData { data, params_map } *)
MethodData(data, params_map) == [data |-> data, params_map |-> params_map]

(* types.rs: MatchedRoute { data, params } *)
MatchedRoute(data, params) == [data |-> data, params |-> params]

RECURSIVE extract_loop(_, _, _, _)
extract_loop(path_segments, entries, k, extracted_params) ==
    IF k > Len(entries) THEN extracted_params
    ELSE LET entry == entries[k]
         IN IF entry.kind = "Index"
            THEN IF entry.idx < Len(path_segments)
                 THEN extract_loop(path_segments, entries, k + 1,
                          MapInsert(extracted_params, entry.name, path_segments[entry.idx + 1]))
                 ELSE extract_loop(path_segments, entries, k + 1, extracted_params)
            ELSE LET value == IF entry.idx < Len(path_segments)
                              THEN join(SubSeq(path_segments, entry.idx + 1, Len(path_segments)), <<"/">>)
                              ELSE <<>>
                 IN extract_loop(path_segments, entries, k + 1,
                        MapInsert(extracted_params, entry.name, value))

(* an extractor that returns an empty map where the program returns None *)
extract_all_params_keeps_empty(path_segments, param_entries_opt) ==
    IF ~IsSome(param_entries_opt) THEN None
    ELSE Some(extract_loop(path_segments, Unwrap(param_entries_opt), 1, EmptyMap))

extract_all_params(path_segments, param_entries_opt) ==
    IF ~IsSome(param_entries_opt) THEN None
    ELSE LET entries == Unwrap(param_entries_opt)
         IN IF Len(entries) = 0 THEN None
            ELSE LET extracted_params == extract_loop(path_segments, entries, 1, EmptyMap)
                 IN IF DOMAIN extracted_params = {} THEN None ELSE Some(extracted_params)

---------------------------------------------------------------------------
(* error.rs *)

InvalidSegment(segment, reason) == [kind |-> "InvalidSegment", segment |-> segment, reason |-> reason]

RouteNotFound(method, path) == [kind |-> "RouteNotFound", method |-> method, path |-> path]

Digits == <<"0", "1", "2", "3", "4", "5", "6", "7", "8", "9">>

(* format!("'{segment_str}' at index {i}") *)
fmt_segment_at_index(segment_str, i) == <<"'">> \o segment_str \o <<"'", " at index ", Digits[i + 1]>>

---------------------------------------------------------------------------
(* operations/add.rs: the pattern analyzer *)

(* a wildcard segment that is accepted wherever it stands *)
wildcard_segment_anywhere(segments, i, segment_str, is_segment_optional, params_map) ==
    LET named == strip_prefix(segment_str, <<"*", "*", ":">>)
    IN IF IsSome(named) /\ Len(Unwrap(named)) = 0
       THEN Err(InvalidSegment(segment_str, "named wildcard must have a name"))
       ELSE IF ~IsSome(named) /\ segment_str # <<"*", "*">>
       THEN Err(InvalidSegment(segment_str, "invalid wildcard format"))
       ELSE LET param_name == IF IsSome(named) THEN Unwrap(named) ELSE <<"_">>
            IN Ok(Some(Append(params_map, Wildcard(i, param_name, is_segment_optional))))

(* the branch for a segment that starts with "**": its name, the entry,    *)
(* the check that it is the last segment, and the break out of the loop    *)
wildcard_segment(segments, i, segment_str, is_segment_optional, params_map) ==
    LET named == strip_prefix(segment_str, <<"*", "*", ":">>)
    IN IF IsSome(named) /\ Len(Unwrap(named)) = 0
       THEN Err(InvalidSegment(segment_str, "named wildcard must have a name"))
       ELSE IF ~IsSome(named) /\ segment_str # <<"*", "*">>
       THEN Err(InvalidSegment(segment_str, "invalid wildcard format"))
       ELSE IF i < Len(segments) - 1
       THEN Err(InvalidSegment(segment_str, "wildcard (**) must be the last segment"))
       ELSE LET param_name == IF IsSome(named) THEN Unwrap(named) ELSE <<"_">>
            IN Ok(Some(Append(params_map, Wildcard(i, param_name, is_segment_optional))))

RECURSIVE build_loop(_, _, _, _)
build_loop(segments, i, params_map, has_params) ==
    IF i >= Len(segments)
    THEN IF has_params THEN Ok(Some(params_map)) ELSE Ok(None)
    ELSE LET seg_str_ref == segments[i + 1]
             is_segment_optional == ends_with(seg_str_ref, "?")
             segment_str == IF is_segment_optional
                            THEN SubSeq(seg_str_ref, 1, Len(seg_str_ref) - 1)
                            ELSE seg_str_ref
             colon == strip_prefix(segment_str, <<":">>)
         IN IF Len(segment_str) = 0 /\ i < Len(segments) - 1
            THEN Err(InvalidSegment(fmt_segment_at_index(segment_str, i),
                         "empty segments are not allowed unless at the very end"))
            ELSE IF starts_with(segment_str, <<"*", "*">>)
            THEN wildcard_segment(segments, i, segment_str, is_segment_optional, params_map)
            ELSE IF IsSome(colon)
            THEN IF Len(Unwrap(colon)) = 0
                 THEN Err(InvalidSegment(segment_str, "named parameter must have a name"))
                 ELSE build_loop(segments, i + 1,
                          Append(params_map, Index(i, Unwrap(colon), is_segment_optional)), TRUE)
            ELSE IF segment_str = <<"*">>
            THEN build_loop(segments, i + 1,
                     Append(params_map, Index(i, <<"_">>, is_segment_optional)), TRUE)
            ELSE IF contains_any(segment_str, {":", "*"})
            THEN Err(InvalidSegment(segment_str,
                         "parameter/wildcard characters must appear at the start"))
            ELSE build_loop(segments, i + 1, params_map, has_params)

build_param_entries_for_pattern_segments(segments) == build_loop(segments, 0, <<>>, FALSE)

---------------------------------------------------------------------------
(* context.rs: Node *)

new_node == [methods |-> EmptyMap, static_children |-> EmptyMap,
             param_child |-> None, wildcard_child |-> None]

(* an emptiness test that never finds a node empty *)
is_empty_recursive_never(node) == FALSE

is_empty_recursive(node) ==
    /\ DOMAIN node.methods = {}
    /\ DOMAIN node.static_children = {}
    /\ ~IsSome(node.param_child)
    /\ ~IsSome(node.wildcard_child)

(* an insert that always makes a new child *)
get_or_new_always_new(child_opt) == new_node

(* Option::get_or_insert_with(new_node_boxed) *)
get_or_new(child_opt) == IF IsSome(child_opt) THEN Unwrap(child_opt) ELSE new_node

(* an insert that puts the new record in front of the older ones *)
push_method_data_front(methods, method, md) ==
    MapInsert(methods, method,
              <<md>> \o (IF method \in DOMAIN methods THEN methods[method] ELSE <<>>))

(* methods.entry(method).or_default().push(md) *)
push_method_data(methods, method, md) ==
    MapInsert(methods, method,
              Append(IF method \in DOMAIN methods THEN methods[method] ELSE <<>>, md))

(* context.rs: Router.static_map, an IndexMap: entries in insertion order *)
index_of(map, key) ==
    IF \E i \in 1..Len(map) : map[i].key = key
    THEN CHOOSE i \in 1..Len(map) : map[i].key = key
    ELSE 0

(* IndexMap::get *)
map_get(map, key) ==
    IF index_of(map, key) = 0 THEN None ELSE Some(map[index_of(map, key)].value)

(* static_map.entry(path).or_default().entry(method).or_default().push(md) *)
static_map_push(map, key, method, md) ==
    LET with_entry == IF index_of(map, key) = 0
                      THEN Append(map, [key |-> key, value |-> EmptyMap])
                      ELSE map
        i == index_of(with_entry, key)
    IN [with_entry EXCEPT ![i].value = push_method_data(@, method, md)]

(* IndexMap::shift_remove *)
shift_remove(map, key) ==
    LET i == index_of(map, key)
    IN IF i = 0 THEN map ELSE SubSeq(map, 1, i - 1) \o SubSeq(map, i + 1, Len(map))

---------------------------------------------------------------------------
(* operations/add.rs: add_route *)

(* the terminal step: append the record to methods[method] *)
add_handler(node, method, md) ==
    [node EXCEPT !.methods = push_method_data(@, method, md)]

RECURSIVE add_walk(_, _, _, _, _)
add_walk(node, segments, i, method, md) ==
    IF i > Len(segments) THEN add_handler(node, method, md)
    ELSE LET segment_for_logic == segments[i]
             temp_segment_for_type_check == strip_suffix_or(segment_for_logic, "?")
         IN IF starts_with(temp_segment_for_type_check, <<"*", "*">>)
            THEN [node EXCEPT !.wildcard_child =
                     Some(add_handler(get_or_new(node.wildcard_child), method, md))]
            ELSE IF starts_with(temp_segment_for_type_check, <<":">>)
                    \/ temp_segment_for_type_check = <<"*">>
            THEN [node EXCEPT !.param_child =
                     Some(add_walk(get_or_new(node.param_child), segments, i + 1, method, md))]
            ELSE [node EXCEPT !.static_children =
                     MapInsert(@, segment_for_logic,
                         add_walk(IF segment_for_logic \in DOMAIN node.static_children
                                  THEN node.static_children[segment_for_logic]
                                  ELSE new_node,
                                  segments, i + 1, method, md))]

(* an insert that takes the root lock before the static map's *)
add_route_sections_root_first == <<"root", "static_map">>

(* The critical sections of add_route in program order: the static map's   *)
(* write lock is taken and released in an inner block (add.rs 146-152),    *)
(* then the root's write lock is taken (add.rs 156) and held to the end    *)
add_route_sections == <<"static_map", "root">>

(* the static-map part of add_route: taken for a purely static pattern *)
add_static(map, normalized_path_string, params_map_for_route, method, data) ==
    IF ~IsSome(params_map_for_route) /\ ~contains_any(normalized_path_string, {":", "*"})
    THEN static_map_push(map, normalized_path_string, method, MethodData(data, None))
    ELSE map

(* an insert that walks the trie and stores the record before it looks at  *)
(* the analyzer's verdict                                                  *)
add_route_walk_first(r, m, method, path, data) ==
    LET normalized_path_string == normalize(path)
        segments == split_path(normalized_path_string)
        analyzed == build_param_entries_for_pattern_segments(segments)
        params_map_for_route == IF analyzed.ok THEN analyzed.val ELSE None
    IN [root |-> add_walk(r, segments, 1, method, MethodData(data, params_map_for_route)),
        static_map |-> add_static(m, normalized_path_string, params_map_for_route,
                                  method, data),
        result |-> IF analyzed.ok THEN Ok("unit") ELSE Err(analyzed.err)]

add_route(r, m, method, path, data) ==
    LET normalized_path_string == normalize(path)
        segments == split_path(normalized_path_string)
        analyzed == build_param_entries_for_pattern_segments(segments)
    IN IF ~analyzed.ok
       THEN [root |-> r, static_map |-> m, result |-> Err(analyzed.err)]
       ELSE [root |-> add_walk(r, segments, 1, method, MethodData(data, analyzed.val)),
             static_map |-> add_static(m, normalized_path_string, analyzed.val, method, data),
             result |-> Ok("unit")]

---------------------------------------------------------------------------
(* operations/remove.rs *)

(* a clear that empties the node's lists of every method *)
clear_handlers_all_methods(node, method) ==
    IF method \in DOMAIN node.methods
    THEN [node |-> [node EXCEPT !.methods = <<>>],
          removed |-> Len(node.methods[method]) > 0]
    ELSE [node |-> node, removed |-> FALSE]

(* a clear that reports a removal whether or not the list held a record *)
clear_handlers_always(node, method) ==
    [node |-> [node EXCEPT !.methods = MapRemove(@, method)], removed |-> TRUE]

(* clear methods[method] and delete the key; removed tells whether a       *)
(* non-empty list was cleared                                              *)
clear_handlers(node, method) ==
    IF method \in DOMAIN node.methods
    THEN [node |-> [node EXCEPT !.methods = MapRemove(@, method)],
          removed |-> Len(node.methods[method]) > 0]
    ELSE [node |-> node, removed |-> FALSE]

RECURSIVE recurse_remove(_, _, _, _)
recurse_remove(current_node, method, pattern_segments, idx) ==
    IF idx >= Len(pattern_segments)
    THEN LET c == clear_handlers(current_node, method)
         IN [node |-> c.node, modified |-> c.removed]
    ELSE LET segment_str_of_pattern == pattern_segments[idx + 1]
             temp_segment_for_type_check == strip_suffix_or(segment_str_of_pattern, "?")
         IN IF starts_with(temp_segment_for_type_check, <<"*", "*">>)
            THEN IF IsSome(current_node.wildcard_child)
                 THEN LET sub == recurse_remove(Unwrap(current_node.wildcard_child), method,
                                                pattern_segments, idx + 1)
                      IN IF sub.modified
                         THEN [node |-> [current_node EXCEPT !.wildcard_child =
                                            IF is_empty_recursive(sub.node) THEN None
                                            ELSE Some(sub.node)],
                               modified |-> TRUE]
                         ELSE [node |-> [current_node EXCEPT !.wildcard_child = Some(sub.node)],
                               modified |-> FALSE]
                 ELSE [node |-> current_node, modified |-> FALSE]
            ELSE IF starts_with(temp_segment_for_type_check, <<":">>)
                    \/ temp_segment_for_type_check = <<"*">>
            THEN IF IsSome(current_node.param_child)
                 THEN LET sub == recurse_remove(Unwrap(current_node.param_child), method,
                                                pattern_segments, idx + 1)
                      IN IF sub.modified
                         THEN [node |-> [current_node EXCEPT !.param_child =
                                            IF is_empty_recursive(sub.node) THEN None
                                            ELSE Some(sub.node)],
                               modified |-> TRUE]
                         ELSE [node |-> [current_node EXCEPT !.param_child = Some(sub.node)],
                               modified |-> FALSE]
                 ELSE [node |-> current_node, modified |-> FALSE]
            ELSE IF segment_str_of_pattern \in DOMAIN current_node.static_children
            THEN LET sub == recurse_remove(current_node.static_children[segment_str_of_pattern],
                                           method, pattern_segments, idx + 1)
                 IN IF sub.modified
                    THEN [node |-> [current_node EXCEPT !.static_children =
                                       IF is_empty_recursive(sub.node)
                                       THEN MapRemove(@, segment_str_of_pattern)
                                       ELSE MapInsert(@, segment_str_of_pattern, sub.node)],
                          modified |-> TRUE]
                    ELSE [node |-> [current_node EXCEPT !.static_children =
                                       MapInsert(@, segment_str_of_pattern, sub.node)],
                          modified |-> FALSE]
            ELSE [node |-> current_node, modified |-> FALSE]

(* the trie part of remove_route *)
remove_from_trie(r, method, segments) ==
    IF Len(segments) = 0
    THEN LET c == clear_handlers(r, method)
         IN [node |-> c.node, modified |-> c.removed]
    ELSE recurse_remove(r, method, segments, 0)

(* a remove that leaves the static map as it is *)
remove_from_static_map_stale(map, normalized_path_string, method) ==
    [map |-> map, modified |-> FALSE]

(* the static-map part of remove_route *)
remove_from_static_map(map, normalized_path_string, method) ==
    IF ~contains_any(normalized_path_string, {":", "*"})
       /\ IsSome(map_get(map, normalized_path_string))
    THEN LET i == index_of(map, normalized_path_string)
             methods_for_path == map[i].value
             removed == method \in DOMAIN methods_for_path
             rest == MapRemove(methods_for_path, method)
         IN [map |-> IF DOMAIN rest = {}
                     THEN shift_remove(map, normalized_path_string)
                     ELSE [map EXCEPT ![i].value = rest],
             modified |-> removed]
    ELSE [map |-> map, modified |-> FALSE]

remove_route(r, m, method, path_pattern_to_remove) ==
    LET normalized_path_string == normalize(path_pattern_to_remove)
        segments == split_path(normalized_path_string)
        in_trie == remove_from_trie(r, method, segments)
        in_static_map == remove_from_static_map(m, normalized_path_string, method)
    IN [root |-> in_trie.node,
        static_map |-> in_static_map.map,
        result |-> Ok(in_trie.modified \/ in_static_map.modified)]

---------------------------------------------------------------------------
(* References into the router.  lookup_node_recursive returns and          *)
(* find_all_recursive_ordered collects &MethodData: a place in a node's    *)
(* methods map.  A place is the path of child links from the root (at),    *)
(* the method key of the list and the position in the list.                *)

StaticLink(seg) == [kind |-> "static", seg |-> seg]

ParamLink == [kind |-> "param"]

WildcardLink == [kind |-> "wildcard"]

TrieRef(at, key, i) == [in |-> "trie", at |-> at, key |-> key, i |-> i]

StaticMapRef(path, key, i) == [in |-> "static_map", at |-> path, key |-> key, i |-> i]

RECURSIVE node_at(_, _)
node_at(node, at) ==
    IF Len(at) = 0 THEN node
    ELSE LET link == at[1]
         IN IF link.kind = "static" THEN node_at(node.static_children[link.seg], Tail(at))
            ELSE IF link.kind = "param" THEN node_at(Unwrap(node.param_child), Tail(at))
            ELSE node_at(Unwrap(node.wildcard_child), Tail(at))

(* the MethodData a reference points to *)
deref(r, m, ref) ==
    IF ref.in = "trie" THEN node_at(r, ref.at).methods[ref.key][ref.i]
    ELSE Unwrap(map_get(m, ref.at))[ref.key][ref.i]

(* a selection that prefers the any-method list *)
get_or_any_prefers_any(methods, method) ==
    IF "" \in DOMAIN methods THEN Some("")
    ELSE IF method \in DOMAIN methods THEN Some(method)
    ELSE None

(* methods.get(method).or_else(|| methods.get("")): the key of the list    *)
(* that is selected, if any                                                *)
get_or_any(methods, method) ==
    IF method \in DOMAIN methods THEN Some(method)
    ELSE IF "" \in DOMAIN methods THEN Some("")
    ELSE None

(* the references to all records of the selected list, in list order *)
handlers_of(node, at, method) ==
    LET sel == get_or_any(node.methods, method)
    IN IF IsSome(sel)
       THEN [i \in 1..Len(node.methods[Unwrap(sel)]) |-> TrieRef(at, Unwrap(sel), i)]
       ELSE <<>>

---------------------------------------------------------------------------
(* operations/find.rs *)

(* an optional test that never holds *)
is_handler_for_optional_pattern_never(md) == FALSE

is_handler_for_optional_pattern(md) ==
    /\ IsSome(md.params_map)
    /\ Len(Unwrap(md.params_map)) > 0
    /\ Last(Unwrap(md.params_map)).opt

(* a gate that lets the parameter child answer whenever it has a record *)
any_optional_always(node, handlers) == Len(handlers) > 0

(* handlers.iter().any(is_handler_for_optional_pattern) *)
any_optional(node, handlers) ==
    \E i \in 1..Len(handlers) :
        is_handler_for_optional_pattern(node.methods[handlers[i].key][handlers[i].i])

(* handlers.first() *)
first(handlers) == IF Len(handlers) > 0 THEN Some(handlers[1]) ELSE None

(* a terminal case that lets a wildcard match the empty suffix only when   *)
(* its pattern carries the optional marker                                 *)
wildcard_matches_empty_if_optional(wildcard_child_node, handlers) ==
    IF any_optional(wildcard_child_node, handlers) THEN first(handlers) ELSE None

(* terminal case, step 3: any handler on the wildcard child matches the    *)
(* empty suffix                                                            *)
wildcard_matches_empty(wildcard_child_node, handlers) == first(handlers)

(* a lookup that does not fall back to the wildcard child *)
first_match_no_wildcard(via_static, via_param, via_wildcard) ==
    IF IsSome(via_static) THEN via_static ELSE via_param

(* a lookup that tries the wildcard child before the parameter child *)
first_match_wildcard_first(via_static, via_param, via_wildcard) ==
    IF IsSome(via_static) THEN via_static
    ELSE IF IsSome(via_wildcard) THEN via_wildcard
    ELSE via_param

(* the recursive step's "return the first that yields a match": the static *)
(* child, then the parameter child, then the wildcard child                *)
first_match(via_static, via_param, via_wildcard) ==
    IF IsSome(via_static) THEN via_static
    ELSE IF IsSome(via_param) THEN via_param
    ELSE via_wildcard

RECURSIVE lookup_node_recursive(_, _, _, _, _)
lookup_node_recursive(node, at, method, segments, idx) ==
    IF idx = Len(segments)
    THEN LET own == first(handlers_of(node, at, method))
             param_handlers == IF IsSome(node.param_child)
                               THEN handlers_of(Unwrap(node.param_child),
                                                Append(at, ParamLink), method)
                               ELSE <<>>
             wildcard_handlers == IF IsSome(node.wildcard_child)
                                  THEN handlers_of(Unwrap(node.wildcard_child),
                                                   Append(at, WildcardLink), method)
                                  ELSE <<>>
         IN IF IsSome(own) THEN own
            ELSE IF IsSome(node.param_child)
                    /\ any_optional(Unwrap(node.param_child), param_handlers)
            THEN first(param_handlers)
            ELSE IF IsSome(node.wildcard_child)
            THEN wildcard_matches_empty(Unwrap(node.wildcard_child), wildcard_handlers)
            ELSE None
    ELSE LET current_segment_value == segments[idx + 1]
             via_static == IF current_segment_value \in DOMAIN node.static_children
                           THEN lookup_node_recursive(
                                    node.static_children[current_segment_value],
                                    Append(at, StaticLink(current_segment_value)),
                                    method, segments, idx + 1)
                           ELSE None
             via_param == IF IsSome(node.param_child)
                          THEN lookup_node_recursive(Unwrap(node.param_child),
                                   Append(at, ParamLink), method, segments, idx + 1)
                          ELSE None
             wildcard_handlers == IF IsSome(node.wildcard_child)
                                  THEN handlers_of(Unwrap(node.wildcard_child),
                                                   Append(at, WildcardLink), method)
                                  ELSE <<>>
         IN first_match(via_static, via_param, first(wildcard_handlers))

(* a fast path that answers with the newest record of the list *)
static_fast_path_newest(m, normalized_path_string, method) ==
    IF contains_any(normalized_path_string, {":", "*"}) THEN None
    ELSE LET methods_for_path == map_get(m, normalized_path_string)
         IN IF ~IsSome(methods_for_path) THEN None
            ELSE LET sel == get_or_any(Unwrap(methods_for_path), method)
                 IN IF ~IsSome(sel) THEN None
                    ELSE Some(StaticMapRef(normalized_path_string, Unwrap(sel),
                                  Len(Unwrap(methods_for_path)[Unwrap(sel)])))

(* Step 1 of find_route: the static fast path *)
static_fast_path(m, normalized_path_string, method) ==
    IF contains_any(normalized_path_string, {":", "*"}) THEN None
    ELSE LET methods_for_path == map_get(m, normalized_path_string)
         IN IF ~IsSome(methods_for_path) THEN None
            ELSE LET sel == get_or_any(Unwrap(methods_for_path), method)
                 IN IF ~IsSome(sel) THEN None
                    ELSE LET method_data_list == Unwrap(methods_for_path)[Unwrap(sel)]
                         IN IF Len(method_data_list) > 0
                               /\ ~IsSome(method_data_list[1].params_map)
                            THEN Some(StaticMapRef(normalized_path_string, Unwrap(sel), 1))
                            ELSE None

(* the record find_route answers with: from the static map if the fast     *)
(* path hits, from the trie walk otherwise                                 *)
find_route_hit(r, m, method, path) ==
    LET normalized_path_string == normalize(path)
        fast == static_fast_path(m, normalized_path_string, method)
    IN IF IsSome(fast) THEN fast
       ELSE lookup_node_recursive(r, <<>>, method, split_path(normalized_path_string), 0)

(* a lookup whose error carries the normalized path *)
find_route_normalized_error(r, m, method, path, capture) ==
    LET hit == find_route_hit(r, m, method, path)
        segments == split_path(normalize(path))
    IN IF ~IsSome(hit) THEN Err(RouteNotFound(method, normalize(path)))
       ELSE LET md == deref(r, m, Unwrap(hit))
            IN IF Unwrap(hit).in = "static_map" THEN Ok(MatchedRoute(md.data, None))
               ELSE Ok(MatchedRoute(md.data,
                        IF capture THEN extract_all_params(segments, md.params_map)
                        ELSE None))

find_route(r, m, method, path, capture) ==
    LET hit == find_route_hit(r, m, method, path)
        segments == split_path(normalize(path))
    IN IF ~IsSome(hit) THEN Err(RouteNotFound(method, path))
       ELSE LET md == deref(r, m, Unwrap(hit))
            IN IF Unwrap(hit).in = "static_map" THEN Ok(MatchedRoute(md.data, None))
               ELSE Ok(MatchedRoute(md.data,
                        IF capture THEN extract_all_params(segments, md.params_map)
                        ELSE None))

---------------------------------------------------------------------------
(* operations/find_all.rs *)

is_last_param_optional_for_find_all(md) ==
    /\ IsSome(md.params_map)
    /\ Len(Unwrap(md.params_map)) > 0
    /\ Last(Unwrap(md.params_map)).opt

(* a test that never lets the parameter child match an absent segment *)
any_optional_for_find_all_never(node, handlers) == FALSE

any_optional_for_find_all(node, handlers) ==
    \E i \in 1..Len(handlers) :
        is_last_param_optional_for_find_all(node.methods[handlers[i].key][handlers[i].i])

(* a traversal that visits the static child first and the wildcard child   *)
(* last                                                                    *)
RECURSIVE find_all_recursive_static_first(_, _, _, _, _)
find_all_recursive_static_first(node, at, method, segments, idx) ==
    LET from_wildcard == IF IsSome(node.wildcard_child)
                         THEN handlers_of(Unwrap(node.wildcard_child),
                                          Append(at, WildcardLink), method)
                         ELSE <<>>
        param_handlers == handlers_of(Unwrap(node.param_child), Append(at, ParamLink), method)
        from_param == IF ~IsSome(node.param_child) THEN <<>>
                      ELSE IF idx < Len(segments)
                      THEN find_all_recursive_static_first(Unwrap(node.param_child),
                               Append(at, ParamLink), method, segments, idx + 1)
                      ELSE IF idx = Len(segments)
                              /\ any_optional_for_find_all(Unwrap(node.param_child), param_handlers)
                      THEN param_handlers
                      ELSE <<>>
        from_static == IF idx < Len(segments)
                          /\ segments[idx + 1] \in DOMAIN node.static_children
                       THEN find_all_recursive_static_first(
                                node.static_children[segments[idx + 1]],
                                Append(at, StaticLink(segments[idx + 1])),
                                method, segments, idx + 1)
                       ELSE <<>>
        own == IF idx = Len(segments) THEN handlers_of(node, at, method) ELSE <<>>
    IN own \o from_static \o from_param \o from_wildcard

(* the references find_all_recursive_ordered appends to matches, in order *)
RECURSIVE find_all_recursive_ordered(_, _, _, _, _)
find_all_recursive_ordered(node, at, method, segments, idx) ==
    LET from_wildcard == IF IsSome(node.wildcard_child)
                         THEN handlers_of(Unwrap(node.wildcard_child),
                                          Append(at, WildcardLink), method)
                         ELSE <<>>
        param_handlers == handlers_of(Unwrap(node.param_child), Append(at, ParamLink), method)
        from_param == IF ~IsSome(node.param_child) THEN <<>>
                      ELSE IF idx < Len(segments)
                      THEN find_all_recursive_ordered(Unwrap(node.param_child),
                               Append(at, ParamLink), method, segments, idx + 1)
                      ELSE IF idx = Len(segments)
                              /\ any_optional_for_find_all(Unwrap(node.param_child), param_handlers)
                      THEN param_handlers
                      ELSE <<>>
        from_static == IF idx < Len(segments)
                          /\ segments[idx + 1] \in DOMAIN node.static_children
                       THEN find_all_recursive_ordered(
                                node.static_children[segments[idx + 1]],
                                Append(at, StaticLink(segments[idx + 1])),
                                method, segments, idx + 1)
                       ELSE <<>>
        own == IF idx = Len(segments) THEN handlers_of(node, at, method) ELSE <<>>
    IN from_wildcard \o from_param \o from_static \o own

(* a loop that keeps every reference *)
dedup_none(r, refs, k, seen_t_values) == SubSeq(refs, k, Len(refs))

(* the de-duplication loop of find_all_routes: keep a reference when its   *)
(* payload has not been seen                                               *)
RECURSIVE dedup(_, _, _, _)
dedup(r, refs, k, seen_t_values) ==
    IF k > Len(refs) THEN <<>>
    ELSE LET data == deref(r, <<>>, refs[k]).data
         IN IF data \in seen_t_values THEN dedup(r, refs, k + 1, seen_t_values)
            ELSE <<refs[k]>> \o dedup(r, refs, k + 1, seen_t_values \cup {data})

(* the references behind the entries of find_all_routes' result *)
find_all_routes_hits(r, method, path) ==
    dedup(r, find_all_recursive_ordered(r, <<>>, method, split_path(normalize(path)), 0),
          1, {})

find_all_routes(r, method, path, capture_params) ==
    LET segments == split_path(normalize(path))
        hits == find_all_routes_hits(r, method, path)
    IN [k \in 1..Len(hits) |->
           LET md_ref == deref(r, <<>>, hits[k])
           IN MatchedRoute(md_ref.data,
                  IF capture_params THEN extract_all_params(segments, md_ref.params_map)
                  ELSE None)]

---------------------------------------------------------------------------
(* Inputs.  A raw path is written from its segments; Raw puts one          *)
(* separator before each segment.                                          *)

Raw(segs) == IF Len(segs) = 0 THEN <<"/">> ELSE <<"/">> \o join(segs, <<"/">>)

seg_a == <<"a">>

seg_x == <<"x">>

seg_s == <<"s">>

seg_t == <<"t">>

param_y == <<":", "y">>

param_y_opt == <<":", "y", "?">>

wildcard_z == <<"*", "*", ":", "z">>

wildcard_z_opt == <<"*", "*", ":", "z", "?">>

wildcard_unnamed == <<"*", "*">>

path_a == Raw(<<seg_a>>)

path_a_slash == Raw(<<seg_a>>) \o <<"/">>

path_a_x == Raw(<<seg_a, seg_x>>)

path_a_s == Raw(<<seg_a, seg_s>>)

path_a_s_t == Raw(<<seg_a, seg_s, seg_t>>)

path_a_x_t == Raw(<<seg_a, seg_x, seg_t>>)

pattern_a_param == Raw(<<seg_a, param_y>>)

pattern_a_param_opt == Raw(<<seg_a, param_y_opt>>)

pattern_a_wildcard == Raw(<<seg_a, wildcard_z>>)

pattern_a_wildcard_opt == Raw(<<seg_a, wildcard_z_opt>>)

pattern_a_wildcard_unnamed == Raw(<<seg_a, wildcard_unnamed>>)

(* patterns the analyzer rejects *)
pattern_wildcard_then_a == Raw(<<wildcard_unnamed, seg_a>>)

pattern_named_wildcard_then_a == Raw(<<wildcard_z, seg_a>>)

pattern_bad_wildcard_then_a == Raw(<<(<<"*", "*", "x">>), seg_a>>)

pattern_a_colon == Raw(<<seg_a, (<<":">>)>>)

pattern_a_wildcard_colon == Raw(<<seg_a, (<<"*", "*", ":">>)>>)

pattern_a_bad_wildcard == Raw(<<seg_a, (<<"*", "*", "x">>)>>)

pattern_question_then_a == Raw(<<(<<"?">>), seg_a>>)

wildcard_w == <<"*", "*", ":", "w">>

param_w == <<":", "w">>

param_x == <<":", "x">>

param_unnamed == <<"*">>

pattern_a_param_w == Raw(<<seg_a, param_w>>)

pattern_a_param_x == Raw(<<seg_a, param_x>>)

pattern_a_param_unnamed == Raw(<<seg_a, param_unnamed>>)

path_a_x_s == Raw(<<seg_a, seg_x, seg_s>>)

pattern_a_param_s == Raw(<<seg_a, param_y, seg_s>>)

pattern_param_wildcard == Raw(<<param_y, wildcard_z>>)

pattern_root_wildcard == Raw(<<wildcard_w>>)

(* raw strings with leading, trailing and repeated separators *)
raw_a_x_bare == join(<<seg_a, seg_x>>, <<"/">>)

raw_a_x_doubled == seg_a \o <<"/", "/">> \o seg_x \o <<"/">>

raw_a_param_doubled == <<"/", "/">> \o seg_a \o <<"/">> \o param_y

raw_a_s_doubled == <<"/">> \o seg_a \o <<"/", "/">> \o seg_s \o <<"/">>

(* the number of add_route and remove_route calls in a run *)
MaxOps == 3

(* A workload: the inputs of a run.  methods, patterns and payloads are    *)
(* those of the add_route calls, remove_patterns the patterns of the       *)
(* remove_route calls (under the same methods); lookup_methods, paths and  *)
(* captures are the inputs of find_route, find_all_paths those of          *)
(* find_all_routes.                                                        *)
PriorityWork(method) ==
    [methods |-> {method},
     patterns |-> {path_a_x, pattern_a_param, pattern_a_wildcard},
     payloads |-> {"v1", "v2"},
     remove_patterns |-> {pattern_a_param},
     lookup_methods |-> {method},
     paths |-> {path_a_x, path_a_s, path_a_s_t, path_a_x_t},
     captures |-> {TRUE},
     find_all_paths |-> {path_a_s},
     max_ops |-> MaxOps]

StaticWork ==
    [methods |-> {"GET", ""},
     patterns |-> {path_a_x, pattern_a_param},
     payloads |-> {"v1", "v2"},
     remove_patterns |-> {path_a_x},
     lookup_methods |-> {"GET", "POST"},
     paths |-> {path_a_x},
     captures |-> {TRUE},
     find_all_paths |-> {path_a_x},
     max_ops |-> MaxOps]

AnyMethodWork ==
    [methods |-> {"GET", ""},
     patterns |-> {path_a, pattern_a_param_opt},
     payloads |-> {"v1", "v2"},
     remove_patterns |-> {path_a},
     lookup_methods |-> {"GET", "POST"},
     paths |-> {path_a, path_a_s},
     captures |-> {TRUE},
     find_all_paths |-> {path_a},
     max_ops |-> MaxOps]

TrailingWork ==
    [methods |-> {"GET"},
     patterns |-> {pattern_a_param_opt, pattern_a_param, pattern_a_wildcard,
                   pattern_a_wildcard_opt, pattern_a_wildcard_unnamed},
     payloads |-> {"v1"},
     remove_patterns |-> {pattern_a_param},
     lookup_methods |-> {"GET"},
     paths |-> {path_a_s, path_a_slash, path_a_s_t},
     captures |-> {TRUE, FALSE},
     find_all_paths |-> {path_a_slash},
     max_ops |-> MaxOps]

InvalidWork ==
    [methods |-> {"GET"},
     patterns |-> {pattern_a_param, pattern_a_wildcard, pattern_wildcard_then_a,
                   pattern_named_wildcard_then_a, pattern_bad_wildcard_then_a,
                   pattern_a_colon, pattern_a_wildcard_colon, pattern_question_then_a},
     payloads |-> {"v1"},
     remove_patterns |-> {pattern_a_colon, pattern_a_wildcard_colon, pattern_a_bad_wildcard,
                          pattern_wildcard_then_a},
     lookup_methods |-> {"GET"},
     paths |-> {path_a_s, path_a_s_t},
     captures |-> {TRUE},
     find_all_paths |-> {path_a_s},
     max_ops |-> MaxOps]

ShadowWork ==
    [methods |-> {"GET"},
     patterns |-> {path_a_x, pattern_a_param},
     payloads |-> {"v1", "v2"},
     remove_patterns |-> {path_a_x, pattern_a_param},
     lookup_methods |-> {"GET"},
     paths |-> {path_a_x, path_a_s},
     captures |-> {TRUE},
     find_all_paths |-> {path_a_x},
     max_ops |-> MaxOps + 1]

RemoveWork ==
    [methods |-> {"GET", ""},
     patterns |-> {path_a_x, pattern_a_param, pattern_a_wildcard},
     payloads |-> {"v1"},
     remove_patterns |-> {path_a_x, pattern_a_param, pattern_a_wildcard, path_a},
     lookup_methods |-> {"GET"},
     paths |-> {path_a_x},
     captures |-> {TRUE},
     find_all_paths |-> {path_a_x},
     max_ops |-> MaxOps]

PruneWork ==
    [methods |-> {"GET", ""},
     patterns |-> {path_a_x, path_a_x_t, pattern_a_wildcard, pattern_a_colon},
     payloads |-> {"v1"},
     remove_patterns |-> {path_a_x, path_a_x_t, pattern_a_wildcard},
     lookup_methods |-> {"GET"},
     paths |-> {path_a_x_t},
     captures |-> {TRUE},
     find_all_paths |-> {path_a_x_t},
     max_ops |-> MaxOps]

SeparatorWork ==
    [methods |-> {"GET"},
     patterns |-> {path_a_x, raw_a_x_doubled, raw_a_param_doubled},
     payloads |-> {"v1"},
     remove_patterns |-> {path_a_x \o <<"/">>, raw_a_param_doubled},
     lookup_methods |-> {"GET"},
     paths |-> {raw_a_x_bare, raw_a_s_doubled},
     captures |-> {TRUE},
     find_all_paths |-> {raw_a_x_doubled, path_a_s_t},
     max_ops |-> MaxOps]

DedupWork ==
    [methods |-> {"GET"},
     patterns |-> {path_a_x, pattern_a_param, pattern_a_wildcard},
     payloads |-> {"v1", "v2"},
     remove_patterns |-> {pattern_a_param},
     lookup_methods |-> {"GET"},
     paths |-> {path_a_x},
     captures |-> {TRUE},
     find_all_paths |-> {path_a_x},
     max_ops |-> MaxOps]

OrderWork ==
    [methods |-> {"GET"},
     patterns |-> {pattern_root_wildcard, pattern_a_wildcard, pattern_a_param, path_a_s},
     payloads |-> {"v1", "v2", "v3"},
     remove_patterns |-> {pattern_a_wildcard},
     lookup_methods |-> {"GET"},
     paths |-> {path_a_s},
     captures |-> {TRUE},
     find_all_paths |-> {path_a_s},
     max_ops |-> MaxOps]

ExactWork ==
    [methods |-> {"GET", ""},
     patterns |-> {path_a, pattern_a_param, pattern_a_param_opt},
     payloads |-> {"v1", "v2"},
     remove_patterns |-> {pattern_a_param},
     lookup_methods |-> {"GET"},
     paths |-> {path_a_s},
     captures |-> {TRUE},
     find_all_paths |-> {path_a, path_a_s},
     max_ops |-> MaxOps]

AccumulateWork ==
    [methods |-> {"GET"},
     patterns |-> {path_a_x, pattern_a_param},
     payloads |-> {"v1", "v2", "v3"},
     remove_patterns |-> {path_a_x, pattern_a_param},
     lookup_methods |-> {"GET"},
     paths |-> {path_a_x},
     captures |-> {TRUE},
     find_all_paths |-> {path_a_x},
     max_ops |-> MaxOps]

ConcurrentWork ==
    [threads |-> {"t1", "t2", "t3"},
     methods |-> {"GET"},
     patterns |-> {path_a_x},
     payloads |-> {"v1", "v2"},
     remove_patterns |-> {path_a_x},
     lookup_methods |-> {"GET"},
     paths |-> {path_a_x},
     captures |-> {TRUE},
     find_all_paths |-> {path_a_x},
     max_ops |-> MaxOps]

GuardWork ==
    [threads |-> {"t1", "t2"},
     methods |-> {"GET"},
     patterns |-> {path_a_x, pattern_a_param},
     payloads |-> {"v1"},
     remove_patterns |-> {path_a_x, pattern_a_param},
     lookup_methods |-> {"GET"},
     paths |-> {path_a_x},
     captures |-> {TRUE},
     find_all_paths |-> {path_a_x},
     max_ops |-> MaxOps]

InterleaveWork ==
    [threads |-> {"t1", "t2"},
     methods |-> {"GET"},
     patterns |-> {path_a, pattern_a_param, pattern_a_param_opt},
     payloads |-> {"v1", "v2"},
     remove_patterns |-> {path_a},
     lookup_methods |-> {"GET"},
     paths |-> {path_a},
     captures |-> {TRUE},
     find_all_paths |-> {path_a},
     max_ops |-> MaxOps]

CaptureWork ==
    [methods |-> {"GET"},
     patterns |-> {path_a_s, pattern_a_param_opt, pattern_a_wildcard, pattern_param_wildcard},
     payloads |-> {"v1", "v2"},
     remove_patterns |-> {path_a_s},
     lookup_methods |-> {"GET"},
     paths |-> {path_a_s, path_a_s_t},
     captures |-> {TRUE, FALSE},
     find_all_paths |-> {path_a},
     max_ops |-> MaxOps]

FrameWork ==
    [methods |-> {"GET", ""},
     patterns |-> {path_a_x, pattern_a_param, pattern_a_param_opt},
     payloads |-> {"v1"},
     remove_patterns |-> {path_a_x, pattern_a_param},
     lookup_methods |-> {"GET", ""},
     paths |-> {path_a, path_a_x},
     captures |-> {TRUE},
     find_all_paths |-> {path_a_x},
     max_ops |-> MaxOps]

ShareWork ==
    [methods |-> {"GET"},
     patterns |-> {pattern_a_param, pattern_a_param_w, pattern_a_param_unnamed,
                   pattern_a_param_opt, pattern_a_wildcard, pattern_a_wildcard_unnamed},
     payloads |-> {"v1"},
     remove_patterns |-> {pattern_a_param_x},
     lookup_methods |-> {"GET"},
     paths |-> {path_a_s},
     captures |-> {TRUE},
     find_all_paths |-> {path_a_s},
     max_ops |-> MaxOps]

BacktrackWork ==
    [methods |-> {"GET"},
     patterns |-> {path_a_x_t, pattern_a_param_s, pattern_a_wildcard},
     payloads |-> {"v1", "v2"},
     remove_patterns |-> {path_a_x_t},
     lookup_methods |-> {"GET"},
     paths |-> {path_a_x_s},
     captures |-> {TRUE},
     find_all_paths |-> {path_a_x_s},
     max_ops |-> MaxOps]

GateWork ==
    [methods |-> {"GET"},
     patterns |-> {path_a, pattern_a_param, pattern_a_param_opt},
     payloads |-> {"v1", "v2"},
     remove_patterns |-> {pattern_a_param},
     lookup_methods |-> {"GET"},
     paths |-> {path_a, path_a_s},
     captures |-> {TRUE},
     find_all_paths |-> {path_a},
     max_ops |-> MaxOps]

---------------------------------------------------------------------------
(* The state machine: a router (context.rs: Router::new) and the calls     *)
(* made on it.  last is the latest call with its result, log the           *)
(* add_route and remove_route calls so far.                                *)

InitWith(w) ==
    /\ root = new_node
    /\ static_map = <<>>
    /\ last = [op |-> "none"]
    /\ log = <<>>
    /\ work = w
    /\ calls = <<>>

AddRoute(method, path, data) ==
    /\ Len(log) < work.max_ops
    /\ LET out == add_route(root, static_map, method, path, data)
           call == [op |-> "add_route", method |-> method, path |-> path,
                    data |-> data, result |-> out.result]
       IN /\ root' = out.root
          /\ static_map' = out.static_map
          /\ last' = call
          /\ log' = Append(log, call)
    /\ UNCHANGED <<work, calls>>

RemoveRoute(method, path) ==
    /\ Len(log) < work.max_ops
    /\ LET out == remove_route(root, static_map, method, path)
           call == [op |-> "remove_route", method |-> method, path |-> path,
                    result |-> out.result]
       IN /\ root' = out.root
          /\ static_map' = out.static_map
          /\ last' = call
          /\ log' = Append(log, call)
    /\ UNCHANGED <<work, calls>>

(* a lookup that stores the record it found in the trie in the static map *)
FindRouteCaching(method, path, capture) ==
    LET hit == find_route_hit(root, static_map, method, path)
    IN /\ last' = [op |-> "find_route", method |-> method, path |-> path,
                   capture |-> capture,
                   result |-> find_route(root, static_map, method, path, capture),
                   hit |-> hit]
       /\ static_map' = IF IsSome(hit) /\ Unwrap(hit).in = "trie"
                        THEN static_map_push(static_map, normalize(path), method,
                                 MethodData(deref(root, static_map, Unwrap(hit)).data, None))
                        ELSE static_map
       /\ UNCHANGED <<root, log, work, calls>>

FindRoute(method, path, capture) ==
    /\ last' = [op |-> "find_route", method |-> method, path |-> path,
                capture |-> capture,
                result |-> find_route(root, static_map, method, path, capture),
                hit |-> find_route_hit(root, static_map, method, path)]
    /\ UNCHANGED <<root, static_map, log, work, calls>>

FindAllRoutes(method, path, capture) ==
    /\ last' = [op |-> "find_all_routes", method |-> method, path |-> path,
                capture |-> capture,
                result |-> find_all_routes(root, method, path, capture),
                hits |-> find_all_routes_hits(root, method, path)]
    /\ UNCHANGED <<root, static_map, log, work, calls>>

Next ==
    \/ \E method \in work.methods, path \in work.patterns, data \in work.payloads :
           AddRoute(method, path, data)
    \/ \E method \in work.methods, path \in work.remove_patterns :
           RemoveRoute(method, path)
    \/ \E method \in work.lookup_methods, path \in work.paths, capture \in work.captures :
           FindRoute(method, path, capture)
    \/ \E method \in work.lookup_methods, path \in work.find_all_paths,
          capture \in work.captures :
           FindAllRoutes(method, path, capture)

---------------------------------------------------------------------------
(* Calls from several threads on one router (context.rs: root and          *)
(* static_map are RwLocks).  calls holds each thread's call in progress.   *)
(* A step is one critical section: the code from taking a lock to          *)
(* releasing it, or to taking the next lock while the first is held.       *)
(* A call goes to log and last when it returns.                            *)

Idle == [op |-> "idle"]

(* the add_route and remove_route calls begun so far *)
Started ==
    Len(log) + Cardinality({t \in DOMAIN calls :
                               calls[t].op \in {"add_route", "remove_route"}})

(* another thread holds the root's write lock: a remove_route between its  *)
(* trie section and its return (remove.rs 44: root_lock lives to the end)  *)
root_write_locked(t) ==
    \E u \in DOMAIN calls \ {t} :
        calls[u].op = "remove_route" /\ calls[u].pc = "static_map"

Return(t, call) ==
    /\ calls' = [calls EXCEPT ![t] = Idle]
    /\ last' = call
    /\ log' = IF call.op \in {"add_route", "remove_route"} THEN Append(log, call) ELSE log

(* add.rs 138-141: normalize, split, analyze; an invalid pattern returns *)
AddRouteCall(t, method, path, data) ==
    /\ calls[t] = Idle
    /\ Started < work.max_ops
    /\ LET analyzed == build_param_entries_for_pattern_segments(split_path(normalize(path)))
       IN IF ~analyzed.ok
          THEN Return(t, [op |-> "add_route", method |-> method, path |-> path,
                          data |-> data, result |-> Err(analyzed.err)])
          ELSE /\ calls' = [calls EXCEPT ![t] =
                               [op |-> "add_route", method |-> method, path |-> path,
                                data |-> data, pc |-> 1]]
               /\ UNCHANGED <<last, log>>
    /\ UNCHANGED <<root, static_map, work>>

(* add.rs 143-154 under the static map's write lock, add.rs 156-189 under  *)
(* the root's write lock                                                   *)
AddRouteSection(t) ==
    /\ calls[t].op = "add_route"
    /\ LET c == calls[t]
           normalized_path_string == normalize(c.path)
           segments == split_path(normalized_path_string)
           params_map_for_route == build_param_entries_for_pattern_segments(segments).val
           section == add_route_sections[c.pc]
       IN /\ section = "root" => ~root_write_locked(t)
          /\ root' = IF section = "root"
                     THEN add_walk(root, segments, 1, c.method,
                                   MethodData(c.data, params_map_for_route))
                     ELSE root
          /\ static_map' = IF section = "static_map"
                           THEN add_static(static_map, normalized_path_string,
                                           params_map_for_route, c.method, c.data)
                           ELSE static_map
          /\ IF c.pc = Len(add_route_sections)
             THEN Return(t, [op |-> "add_route", method |-> c.method, path |-> c.path,
                             data |-> c.data, result |-> Ok("unit")])
             ELSE /\ calls' = [calls EXCEPT ![t].pc = c.pc + 1]
                  /\ UNCHANGED <<last, log>>
    /\ UNCHANGED work

(* remove.rs 41-42 *)
RemoveRouteCall(t, method, path) ==
    /\ calls[t] = Idle
    /\ Started < work.max_ops
    /\ calls' = [calls EXCEPT ![t] =
                    [op |-> "remove_route", method |-> method, path |-> path,
                     pc |-> "root"]]
    /\ UNCHANGED <<root, static_map, last, log, work>>

(* remove.rs 44-59: the root's write lock is taken and the trie changed *)
RemoveRouteTrie(t) ==
    /\ calls[t].op = "remove_route" /\ calls[t].pc = "root"
    /\ ~root_write_locked(t)
    /\ LET c == calls[t]
           in_trie == remove_from_trie(root, c.method, split_path(normalize(c.path)))
       IN /\ root' = in_trie.node
          /\ calls' = [calls EXCEPT ![t] =
                          [op |-> "remove_route", method |-> c.method, path |-> c.path,
                           pc |-> "static_map", modified_in_trie |-> in_trie.modified]]
    /\ UNCHANGED <<static_map, last, log, work>>

(* remove.rs 61-74: with the root still locked the static map's write lock *)
(* is taken, the entry removed, and the call returns                       *)
RemoveRouteStatic(t) ==
    /\ calls[t].op = "remove_route" /\ calls[t].pc = "static_map"
    /\ LET c == calls[t]
           in_static_map == remove_from_static_map(static_map, normalize(c.path), c.method)
       IN /\ static_map' = in_static_map.map
          /\ Return(t, [op |-> "remove_route", method |-> c.method, path |-> c.path,
                        result |-> Ok(c.modified_in_trie \/ in_static_map.modified)])
    /\ UNCHANGED <<root, work>>

(* find.rs 43 *)
FindRouteCall(t, method, path, capture) ==
    /\ calls[t] = Idle
    /\ calls' = [calls EXCEPT ![t] =
                    [op |-> "find_route", method |-> method, path |-> path,
                     capture |-> capture, pc |-> "static_map"]]
    /\ UNCHANGED <<root, static_map, last, log, work>>

(* find.rs 45-62: the fast path under the static map's read lock; a hit    *)
(* returns                                                                 *)
FindRouteStatic(t) ==
    /\ calls[t].op = "find_route" /\ calls[t].pc = "static_map"
    /\ LET c == calls[t]
           fast == static_fast_path(static_map, normalize(c.path), c.method)
       IN IF IsSome(fast)
          THEN Return(t, [op |-> "find_route", method |-> c.method, path |-> c.path,
                          capture |-> c.capture,
                          result |-> find_route(root, static_map, c.method, c.path,
                                                c.capture),
                          hit |-> fast])
          ELSE /\ calls' = [calls EXCEPT ![t].pc = "root"]
               /\ UNCHANGED <<last, log>>
    /\ UNCHANGED <<root, static_map, work>>

(* find.rs 64-83: the trie walk under the root's read lock *)
FindRouteTrie(t) ==
    /\ calls[t].op = "find_route" /\ calls[t].pc = "root"
    /\ ~root_write_locked(t)
    /\ LET c == calls[t]
       IN Return(t, [op |-> "find_route", method |-> c.method, path |-> c.path,
                     capture |-> c.capture,
                     result |-> find_route(root, <<>>, c.method, c.path, c.capture),
                     hit |-> find_route_hit(root, <<>>, c.method, c.path)])
    /\ UNCHANGED <<root, static_map, work>>

(* find_all.rs 53-56 *)
FindAllRoutesCall(t, method, path, capture) ==
    /\ calls[t] = Idle
    /\ calls' = [calls EXCEPT ![t] =
                    [op |-> "find_all_routes", method |-> method, path |-> path,
                     capture |-> capture, pc |-> "root"]]
    /\ UNCHANGED <<root, static_map, last, log, work>>

(* find_all.rs 58-85: the whole collection under the root's read lock *)
FindAllRoutesTrie(t) ==
    /\ calls[t].op = "find_all_routes"
    /\ ~root_write_locked(t)
    /\ LET c == calls[t]
       IN Return(t, [op |-> "find_all_routes", method |-> c.method, path |-> c.path,
                     capture |-> c.capture,
                     result |-> find_all_routes(root, c.method, c.path, c.capture),
                     hits |-> find_all_routes_hits(root, c.method, c.path)])
    /\ UNCHANGED <<root, static_map, work>>

NextConcurrent ==
    \/ \E t \in DOMAIN calls, method \in work.methods, path \in work.patterns,
          data \in work.payloads :
           AddRouteCall(t, method, path, data)
    \/ \E t \in DOMAIN calls : AddRouteSection(t)
    \/ \E t \in DOMAIN calls, method \in work.methods, path \in work.remove_patterns :
           RemoveRouteCall(t, method, path)
    \/ \E t \in DOMAIN calls : RemoveRouteTrie(t)
    \/ \E t \in DOMAIN calls : RemoveRouteStatic(t)
    \/ \E t \in DOMAIN calls, method \in work.lookup_methods, path \in work.paths,
          capture \in work.captures :
           FindRouteCall(t, method, path, capture)
    \/ \E t \in DOMAIN calls : FindRouteStatic(t)
    \/ \E t \in DOMAIN calls : FindRouteTrie(t)
    \/ \E t \in DOMAIN calls, method \in work.lookup_methods, path \in work.find_all_paths,
          capture \in work.captures :
           FindAllRoutesCall(t, method, path, capture)
    \/ \E t \in DOMAIN calls : FindAllRoutesTrie(t)

---------------------------------------------------------------------------
(* The same calls with the guards written out.  root and static_map are    *)
(* parking_lot RwLocks (context.rs 61-68): a write guard excludes every    *)
(* other guard, a read guard excludes write guards.  A guard is held from  *)
(* the step that takes it to the step that drops it; the pc of a call      *)
(* names the step it takes next.  Inside a write section the structure is  *)
(* changed in two steps, so that the states between are states of the      *)
(* model: the node chain is created before the record is pushed            *)
(* (add.rs 158-187), the list is cleared before the branch is pruned       *)
(* (remove.rs 84-137), the entry is created before the record is pushed    *)
(* (add.rs 147-152), the method is removed before the empty entry is       *)
(* (remove.rs 64-70).                                                      *)

(* an insert that keeps the static map's write guard until it returns *)
holds_static_write_to_end(c) ==
    \/ c.op = "add_route" /\ c.pc \in {"static_push", "root_acquire", "root_push"}
    \/ c.op = "remove_route" /\ c.pc = "static_shift"

(* add.rs 146-152: static_map_lock lives in the inner block;               *)
(* remove.rs 63-71: static_map_lock lives in the if block                  *)
holds_static_write(c) ==
    \/ c.op = "add_route" /\ c.pc = "static_push"
    \/ c.op = "remove_route" /\ c.pc = "static_shift"

(* a root lock that excludes nobody *)
holds_root_write_never(c) == FALSE

(* add.rs 156: the guard lives to the end of add_route;                    *)
(* remove.rs 44: root_lock lives to the end of remove_route                *)
holds_root_write(c) ==
    \/ c.op = "add_route" /\ c.pc = "root_push"
    \/ c.op = "remove_route" /\ c.pc \in {"root_prune", "static_acquire", "static_shift"}

(* find.rs 46: static_map_read_guard lives in the if block *)
holds_static_read(c) == c.op = "find_route" /\ c.pc = "static_read"

(* find.rs 65, find_all.rs 58: root_lock lives to the end of the lookup *)
holds_root_read(c) == c.op \in {"find_route", "find_all_routes"} /\ c.pc = "root_read"

(* RwLock::write and RwLock::read return *)
can_write_static(t) ==
    \A u \in DOMAIN calls \ {t} :
        ~holds_static_write(calls[u]) /\ ~holds_static_read(calls[u])

can_read_static(t) ==
    \A u \in DOMAIN calls \ {t} : ~holds_static_write(calls[u])

can_write_root(t) ==
    \A u \in DOMAIN calls \ {t} :
        ~holds_root_write(calls[u]) /\ ~holds_root_read(calls[u])

can_read_root(t) ==
    \A u \in DOMAIN calls \ {t} : ~holds_root_write(calls[u])

(* add.rs 158-181: the walk that creates the missing nodes *)
RECURSIVE add_chain(_, _, _)
add_chain(node, segments, i) ==
    IF i > Len(segments) THEN node
    ELSE LET segment_for_logic == segments[i]
             temp_segment_for_type_check == strip_suffix_or(segment_for_logic, "?")
         IN IF starts_with(temp_segment_for_type_check, <<"*", "*">>)
            THEN [node EXCEPT !.wildcard_child = Some(get_or_new(node.wildcard_child))]
            ELSE IF starts_with(temp_segment_for_type_check, <<":">>)
                    \/ temp_segment_for_type_check = <<"*">>
            THEN [node EXCEPT !.param_child =
                     Some(add_chain(get_or_new(node.param_child), segments, i + 1))]
            ELSE [node EXCEPT !.static_children =
                     MapInsert(@, segment_for_logic,
                         add_chain(IF segment_for_logic \in DOMAIN node.static_children
                                   THEN node.static_children[segment_for_logic]
                                   ELSE new_node,
                                   segments, i + 1))]

(* remove.rs 84-100 reached through 105-137: the descent to the terminal   *)
(* node and the clearing of its list, before any child is detached         *)
RECURSIVE recurse_clear(_, _, _, _)
recurse_clear(current_node, method, pattern_segments, idx) ==
    IF idx >= Len(pattern_segments)
    THEN LET c == clear_handlers(current_node, method)
         IN [node |-> c.node, modified |-> c.removed]
    ELSE LET segment_str_of_pattern == pattern_segments[idx + 1]
             temp_segment_for_type_check == strip_suffix_or(segment_str_of_pattern, "?")
         IN IF starts_with(temp_segment_for_type_check, <<"*", "*">>)
            THEN IF IsSome(current_node.wildcard_child)
                 THEN LET sub == recurse_clear(Unwrap(current_node.wildcard_child), method,
                                               pattern_segments, idx + 1)
                      IN [node |-> [current_node EXCEPT !.wildcard_child = Some(sub.node)],
                          modified |-> sub.modified]
                 ELSE [node |-> current_node, modified |-> FALSE]
            ELSE IF starts_with(temp_segment_for_type_check, <<":">>)
                    \/ temp_segment_for_type_check = <<"*">>
            THEN IF IsSome(current_node.param_child)
                 THEN LET sub == recurse_clear(Unwrap(current_node.param_child), method,
                                               pattern_segments, idx + 1)
                      IN [node |-> [current_node EXCEPT !.param_child = Some(sub.node)],
                          modified |-> sub.modified]
                 ELSE [node |-> current_node, modified |-> FALSE]
            ELSE IF segment_str_of_pattern \in DOMAIN current_node.static_children
            THEN LET sub == recurse_clear(current_node.static_children[segment_str_of_pattern],
                                          method, pattern_segments, idx + 1)
                 IN [node |-> [current_node EXCEPT !.static_children =
                                  MapInsert(@, segment_str_of_pattern, sub.node)],
                     modified |-> sub.modified]
            ELSE [node |-> current_node, modified |-> FALSE]

(* remove.rs 108-136: on the way back each child that is_empty_recursive   *)
(* is detached                                                             *)
RECURSIVE prune_branch(_, _, _)
prune_branch(current_node, pattern_segments, idx) ==
    IF idx >= Len(pattern_segments) THEN current_node
    ELSE LET segment_str_of_pattern == pattern_segments[idx + 1]
             temp_segment_for_type_check == strip_suffix_or(segment_str_of_pattern, "?")
         IN IF starts_with(temp_segment_for_type_check, <<"*", "*">>)
            THEN IF IsSome(current_node.wildcard_child)
                 THEN LET sub == prune_branch(Unwrap(current_node.wildcard_child),
                                              pattern_segments, idx + 1)
                      IN [current_node EXCEPT !.wildcard_child =
                             IF is_empty_recursive(sub) THEN None ELSE Some(sub)]
                 ELSE current_node
            ELSE IF starts_with(temp_segment_for_type_check, <<":">>)
                    \/ temp_segment_for_type_check = <<"*">>
            THEN IF IsSome(current_node.param_child)
                 THEN LET sub == prune_branch(Unwrap(current_node.param_child),
                                              pattern_segments, idx + 1)
                      IN [current_node EXCEPT !.param_child =
                             IF is_empty_recursive(sub) THEN None ELSE Some(sub)]
                 ELSE current_node
            ELSE IF segment_str_of_pattern \in DOMAIN current_node.static_children
            THEN LET sub == prune_branch(current_node.static_children[segment_str_of_pattern],
                                         pattern_segments, idx + 1)
                 IN [current_node EXCEPT !.static_children =
                        IF is_empty_recursive(sub)
                        THEN MapRemove(@, segment_str_of_pattern)
                        ELSE MapInsert(@, segment_str_of_pattern, sub)]
            ELSE current_node

(* add.rs 147-151: entry(path).or_default().entry(method).or_default() *)
static_map_entry(map, key, method) ==
    LET with_entry == IF index_of(map, key) = 0
                      THEN Append(map, [key |-> key, value |-> EmptyMap])
                      ELSE map
        i == index_of(with_entry, key)
    IN [with_entry EXCEPT ![i].value =
           IF method \in DOMAIN @ THEN @ ELSE MapInsert(@, method, <<>>)]

(* remove.rs 64-67: methods_for_path.remove(method) *)
static_map_remove_method(map, key, method) ==
    LET i == index_of(map, key)
    IN IF i = 0 THEN [map |-> map, modified |-> FALSE]
       ELSE [map |-> [map EXCEPT ![i].value = MapRemove(@, method)],
             modified |-> method \in DOMAIN map[i].value]

(* remove.rs 68-70: the entry is removed when no method is left *)
static_map_shift_if_empty(map, key) ==
    LET i == index_of(map, key)
    IN IF i # 0 /\ DOMAIN map[i].value = {} THEN shift_remove(map, key) ELSE map

is_purely_static(path) == ~contains_any(normalize(path), {":", "*"})

(* add.rs 138-141 *)
AddRouteBegin(t, method, path, data) ==
    /\ calls[t] = Idle
    /\ Started < work.max_ops
    /\ LET analyzed == build_param_entries_for_pattern_segments(split_path(normalize(path)))
       IN IF ~analyzed.ok
          THEN Return(t, [op |-> "add_route", method |-> method, path |-> path,
                          data |-> data, result |-> Err(analyzed.err)])
          ELSE /\ calls' = [calls EXCEPT ![t] =
                               [op |-> "add_route", method |-> method, path |-> path,
                                data |-> data,
                                pc |-> IF ~IsSome(analyzed.val) /\ is_purely_static(path)
                                       THEN "static_acquire" ELSE "root_acquire"]]
               /\ UNCHANGED <<last, log>>
    /\ UNCHANGED <<root, static_map, work>>

(* add.rs 146-151: the write guard is taken, the entries are created *)
AddRouteStaticEntry(t) ==
    /\ calls[t].op = "add_route" /\ calls[t].pc = "static_acquire"
    /\ can_write_static(t)
    /\ static_map' = static_map_entry(static_map, normalize(calls[t].path), calls[t].method)
    /\ calls' = [calls EXCEPT ![t].pc = "static_push"]
    /\ UNCHANGED <<root, last, log, work>>

(* add.rs 151-152: the record is pushed, the guard dropped *)
AddRouteStaticPush(t) ==
    /\ calls[t].op = "add_route" /\ calls[t].pc = "static_push"
    /\ static_map' = static_map_push(static_map, normalize(calls[t].path), calls[t].method,
                                     MethodData(calls[t].data, None))
    /\ calls' = [calls EXCEPT ![t].pc = "root_acquire"]
    /\ UNCHANGED <<root, last, log, work>>

(* add.rs 156-181: the write guard is taken, the node chain is created *)
AddRouteChain(t) ==
    /\ calls[t].op = "add_route" /\ calls[t].pc = "root_acquire"
    /\ can_write_root(t)
    /\ root' = add_chain(root, split_path(normalize(calls[t].path)), 1)
    /\ calls' = [calls EXCEPT ![t].pc = "root_push"]
    /\ UNCHANGED <<static_map, last, log, work>>

(* add.rs 183-189: the record is pushed, the guard dropped, Ok(()) returned *)
AddRoutePush(t) ==
    /\ calls[t].op = "add_route" /\ calls[t].pc = "root_push"
    /\ LET c == calls[t]
           segments == split_path(normalize(c.path))
           params_map_for_route == build_param_entries_for_pattern_segments(segments).val
       IN /\ root' = add_walk(root, segments, 1, c.method,
                              MethodData(c.data, params_map_for_route))
          /\ Return(t, [op |-> "add_route", method |-> c.method, path |-> c.path,
                        data |-> c.data, result |-> Ok("unit")])
    /\ UNCHANGED <<static_map, work>>

(* remove.rs 41-42 *)
RemoveRouteBegin(t, method, path) ==
    /\ calls[t] = Idle
    /\ Started < work.max_ops
    /\ calls' = [calls EXCEPT ![t] =
                    [op |-> "remove_route", method |-> method, path |-> path,
                     pc |-> "root_acquire"]]
    /\ UNCHANGED <<root, static_map, last, log, work>>

(* remove.rs 44-59: the write guard is taken, the terminal list cleared *)
RemoveRouteClear(t) ==
    /\ calls[t].op = "remove_route" /\ calls[t].pc = "root_acquire"
    /\ can_write_root(t)
    /\ LET c == calls[t]
           cleared == recurse_clear(root, c.method, split_path(normalize(c.path)), 0)
       IN /\ root' = cleared.node
          /\ calls' = [calls EXCEPT ![t] =
                          [op |-> "remove_route", method |-> c.method, path |-> c.path,
                           pc |-> "root_prune", modified_in_trie |-> cleared.modified]]
    /\ UNCHANGED <<static_map, last, log, work>>

(* remove.rs 108-136: the emptied branch is detached; a pattern with ':'   *)
(* or '*' returns here (remove.rs 62, 74)                                  *)
RemoveRoutePrune(t) ==
    /\ calls[t].op = "remove_route" /\ calls[t].pc = "root_prune"
    /\ LET c == calls[t]
       IN /\ root' = IF c.modified_in_trie
                     THEN prune_branch(root, split_path(normalize(c.path)), 0)
                     ELSE root
          /\ IF is_purely_static(c.path)
             THEN /\ calls' = [calls EXCEPT ![t].pc = "static_acquire"]
                  /\ UNCHANGED <<last, log>>
             ELSE Return(t, [op |-> "remove_route", method |-> c.method, path |-> c.path,
                             result |-> Ok(c.modified_in_trie)])
    /\ UNCHANGED <<static_map, work>>

(* remove.rs 63-67: with the root guard held the static map's write guard  *)
(* is taken and the method removed from the entry                          *)
RemoveRouteStaticMethod(t) ==
    /\ calls[t].op = "remove_route" /\ calls[t].pc = "static_acquire"
    /\ can_write_static(t)
    /\ LET c == calls[t]
           removed == static_map_remove_method(static_map, normalize(c.path), c.method)
       IN /\ static_map' = removed.map
          /\ calls' = [calls EXCEPT ![t] =
                          [op |-> "remove_route", method |-> c.method, path |-> c.path,
                           pc |-> "static_shift", modified_in_trie |-> c.modified_in_trie,
                           modified_in_static_map |-> removed.modified]]
    /\ UNCHANGED <<root, last, log, work>>

(* remove.rs 68-74: the empty entry is removed, both guards are dropped *)
RemoveRouteStaticShift(t) ==
    /\ calls[t].op = "remove_route" /\ calls[t].pc = "static_shift"
    /\ LET c == calls[t]
       IN /\ static_map' = static_map_shift_if_empty(static_map, normalize(c.path))
          /\ Return(t, [op |-> "remove_route", method |-> c.method, path |-> c.path,
                        result |-> Ok(c.modified_in_trie \/ c.modified_in_static_map)])
    /\ UNCHANGED <<root, work>>

(* find.rs 43-45 *)
FindRouteBegin(t, method, path, capture) ==
    /\ calls[t] = Idle
    /\ calls' = [calls EXCEPT ![t] =
                    [op |-> "find_route", method |-> method, path |-> path,
                     capture |-> capture,
                     pc |-> IF is_purely_static(path) THEN "static_acquire"
                            ELSE "root_acquire"]]
    /\ UNCHANGED <<root, static_map, last, log, work>>

(* find.rs 46: the read guard is taken; seen is the map as the lookup      *)
(* finds it                                                                *)
FindRouteStaticLock(t) ==
    /\ calls[t].op = "find_route" /\ calls[t].pc = "static_acquire"
    /\ can_read_static(t)
    /\ LET c == calls[t]
       IN calls' = [calls EXCEPT ![t] =
                       [op |-> "find_route", method |-> c.method, path |-> c.path,
                        capture |-> c.capture, pc |-> "static_read", seen |-> static_map]]
    /\ UNCHANGED <<root, static_map, last, log, work>>

(* find.rs 47-61: the fast path; the guard is dropped *)
FindRouteStaticRead(t) ==
    /\ calls[t].op = "find_route" /\ calls[t].pc = "static_read"
    /\ LET c == calls[t]
           fast == static_fast_path(static_map, normalize(c.path), c.method)
       IN IF IsSome(fast)
          THEN Return(t, [op |-> "find_route", method |-> c.method, path |-> c.path,
                          capture |-> c.capture,
                          result |-> find_route(root, static_map, c.method, c.path,
                                                c.capture),
                          hit |-> fast])
          ELSE /\ calls' = [calls EXCEPT ![t] =
                               [op |-> "find_route", method |-> c.method, path |-> c.path,
                                capture |-> c.capture, pc |-> "root_acquire"]]
               /\ UNCHANGED <<last, log>>
    /\ UNCHANGED <<root, static_map, work>>

(* find.rs 65: the read guard is taken *)
FindRouteRootLock(t) ==
    /\ calls[t].op = "find_route" /\ calls[t].pc = "root_acquire"
    /\ can_read_root(t)
    /\ LET c == calls[t]
       IN calls' = [calls EXCEPT ![t] =
                       [op |-> "find_route", method |-> c.method, path |-> c.path,
                        capture |-> c.capture, pc |-> "root_read", seen |-> root]]
    /\ UNCHANGED <<root, static_map, last, log, work>>

(* find.rs 67-83: the trie walk; the guard is dropped *)
FindRouteRootRead(t) ==
    /\ calls[t].op = "find_route" /\ calls[t].pc = "root_read"
    /\ LET c == calls[t]
       IN Return(t, [op |-> "find_route", method |-> c.method, path |-> c.path,
                     capture |-> c.capture,
                     result |-> find_route(root, <<>>, c.method, c.path, c.capture),
                     hit |-> find_route_hit(root, <<>>, c.method, c.path)])
    /\ UNCHANGED <<root, static_map, work>>

(* find_all.rs 53-54 *)
FindAllRoutesBegin(t, method, path, capture) ==
    /\ calls[t] = Idle
    /\ calls' = [calls EXCEPT ![t] =
                    [op |-> "find_all_routes", method |-> method, path |-> path,
                     capture |-> capture, pc |-> "root_acquire"]]
    /\ UNCHANGED <<root, static_map, last, log, work>>

(* find_all.rs 57: the read guard is taken *)
FindAllRoutesRootLock(t) ==
    /\ calls[t].op = "find_all_routes" /\ calls[t].pc = "root_acquire"
    /\ can_read_root(t)
    /\ LET c == calls[t]
       IN calls' = [calls EXCEPT ![t] =
                       [op |-> "find_all_routes", method |-> c.method, path |-> c.path,
                        capture |-> c.capture, pc |-> "root_read", seen |-> root]]
    /\ UNCHANGED <<root, static_map, last, log, work>>

(* find_all.rs 59-85: the collection over the trie the guard gave access   *)
(* to; the guard is dropped                                                *)
FindAllRoutesRootRead(t) ==
    /\ calls[t].op = "find_all_routes" /\ calls[t].pc = "root_read"
    /\ LET c == calls[t]
       IN Return(t, [op |-> "find_all_routes", method |-> c.method, path |-> c.path,
                     capture |-> c.capture,
                     result |-> find_all_routes(root, c.method, c.path, c.capture),
                     hits |-> find_all_routes_hits(root, c.method, c.path),
                     seen |-> c.seen])
    /\ UNCHANGED <<root, static_map, work>>

(* the steps of the call of thread t that is in progress *)
Proceed(t) ==
    \/ AddRouteStaticEntry(t)
    \/ AddRouteStaticPush(t)
    \/ AddRouteChain(t)
    \/ AddRoutePush(t)
    \/ RemoveRouteClear(t)
    \/ RemoveRoutePrune(t)
    \/ RemoveRouteStaticMethod(t)
    \/ RemoveRouteStaticShift(t)
    \/ FindRouteStaticLock(t)
    \/ FindRouteStaticRead(t)
    \/ FindRouteRootLock(t)
    \/ FindRouteRootRead(t)
    \/ FindAllRoutesRootLock(t)
    \/ FindAllRoutesRootRead(t)

(* the call of thread t can take its next step: it holds the guards it     *)
(* needs or the guard it takes next is free                                *)
CanStep(t) ==
    /\ calls[t] # Idle
    /\ calls[t].pc = "root_acquire"
       => IF calls[t].op \in {"add_route", "remove_route"}
          THEN can_write_root(t) ELSE can_read_root(t)
    /\ calls[t].pc = "static_acquire"
       => IF calls[t].op \in {"add_route", "remove_route"}
          THEN can_write_static(t) ELSE can_read_static(t)

(* the call of thread t takes a step *)
Stepped(t) == calls[t] # Idle /\ calls'[t] # calls[t]

NextGuards ==
    \/ \E t \in DOMAIN calls, method \in work.methods, path \in work.patterns,
          data \in work.payloads :
           AddRouteBegin(t, method, path, data)
    \/ \E t \in DOMAIN calls, method \in work.methods, path \in work.remove_patterns :
           RemoveRouteBegin(t, method, path)
    \/ \E t \in DOMAIN calls, method \in work.lookup_methods, path \in work.paths,
          capture \in work.captures :
           FindRouteBegin(t, method, path, capture)
    \/ \E t \in DOMAIN calls, method \in work.lookup_methods, path \in work.find_all_paths,
          capture \in work.captures :
           FindAllRoutesBegin(t, method, path, capture)
    \/ \E t \in DOMAIN calls : AddRouteStaticEntry(t)
    \/ \E t \in DOMAIN calls : AddRouteStaticPush(t)
    \/ \E t \in DOMAIN calls : AddRouteChain(t)
    \/ \E t \in DOMAIN calls : AddRoutePush(t)
    \/ \E t \in DOMAIN calls : RemoveRouteClear(t)
    \/ \E t \in DOMAIN calls : RemoveRoutePrune(t)
    \/ \E t \in DOMAIN calls : RemoveRouteStaticMethod(t)
    \/ \E t \in DOMAIN calls : RemoveRouteStaticShift(t)
    \/ \E t \in DOMAIN calls : FindRouteStaticLock(t)
    \/ \E t \in DOMAIN calls : FindRouteStaticRead(t)
    \/ \E t \in DOMAIN calls : FindRouteRootLock(t)
    \/ \E t \in DOMAIN calls : FindRouteRootRead(t)
    \/ \E t \in DOMAIN calls : FindAllRoutesRootLock(t)
    \/ \E t \in DOMAIN calls : FindAllRoutesRootRead(t)

(* log holds exactly the successful calls add_route(method, p, routes[p]), *)
(* one for each pattern p of routes, in any order                          *)
InsertedExactly(method, routes) ==
    /\ Len(log) = Cardinality(DOMAIN routes)
    /\ \A p \in DOMAIN routes :
           \E i \in 1..Len(log) :
               log[i] = [op |-> "add_route", method |-> method, path |-> p,
                         data |-> routes[p], result |-> Ok("unit")]

(* a parameter map with one binding *)
Binding(name, value) == Some(MapInsert(EmptyMap, name, value))

(* two raw strings that name the same pattern or path *)
SamePath(p, q) == normalize(p) = normalize(q)

(* the successful add_route calls of log for (method, pattern) that no     *)
(* later remove_route call for (method, pattern) follows: the records      *)
(* stored for the pattern under the method, oldest first                   *)
LiveAdds(method, pattern) ==
    {i \in 1..Len(log) :
        /\ log[i].op = "add_route" /\ log[i].method = method
        /\ SamePath(log[i].path, pattern) /\ log[i].result.ok
        /\ \A j \in (i + 1)..Len(log) :
               ~(log[j].op = "remove_route" /\ log[j].method = method
                 /\ SamePath(log[j].path, pattern))}

Min(S) == CHOOSE i \in S : \A j \in S : i <= j

(* the patterns with a record stored under the method *)
LivePatterns(method) ==
    {log[i].path : i \in {j \in 1..Len(log) : j \in LiveAdds(log[j].method, log[j].path)
                                                /\ log[j].method = method}}

(* Pattern semantics (spec section 3): a literal matches an equal segment, *)
(* a parameter exactly one segment, an optional last parameter also no     *)
(* segment, a wildcard the remaining segments (possibly none).             *)
IsWildcardElement(e) == starts_with(strip_suffix_or(e, "?"), <<"*", "*">>)

IsParamElement(e) ==
    /\ ~IsWildcardElement(e)
    /\ (starts_with(e, <<":">>) \/ strip_suffix_or(e, "?") = <<"*">>)

RECURSIVE ElementsMatch(_, _, _, _)
ElementsMatch(pat, i, segs, j) ==
    IF i > Len(pat) THEN j > Len(segs)
    ELSE IF IsWildcardElement(pat[i]) THEN TRUE
    ELSE IF IsParamElement(pat[i])
    THEN \/ j <= Len(segs) /\ ElementsMatch(pat, i + 1, segs, j + 1)
         \/ i = Len(pat) /\ ends_with(pat[i], "?") /\ j > Len(segs)
    ELSE j <= Len(segs) /\ segs[j] = pat[i] /\ ElementsMatch(pat, i + 1, segs, j + 1)

PatternMatches(pattern, path) ==
    ElementsMatch(split_path(normalize(pattern)), 1, split_path(normalize(path)), 1)

(* a pattern without parameter or wildcard *)
IsStaticPattern(pattern) ==
    \A i \in 1..Len(split_path(normalize(pattern))) :
        LET e == split_path(normalize(pattern))[i]
        IN ~IsWildcardElement(e) /\ ~IsParamElement(e)

InitPriority == \E method \in {"GET", ""} : InitWith(PriorityWork(method))

SpecPriority == InitPriority /\ [][Next]_vars

InitStatic == InitWith(StaticWork)

SpecStatic == InitStatic /\ [][Next]_vars

InitAnyMethod == InitWith(AnyMethodWork)

SpecAnyMethod == InitAnyMethod /\ [][Next]_vars

InitTrailing == InitWith(TrailingWork)

SpecTrailing == InitTrailing /\ [][Next]_vars

InitInvalid == InitWith(InvalidWork)

SpecInvalid == InitInvalid /\ [][Next]_vars

InitShadow == InitWith(ShadowWork)

SpecShadow == InitShadow /\ [][Next]_vars

InitRemove == InitWith(RemoveWork)

SpecRemove == InitRemove /\ [][Next]_vars

InitPrune == InitWith(PruneWork)

SpecPrune == InitPrune /\ [][Next]_vars

InitSeparator == InitWith(SeparatorWork)

SpecSeparator == InitSeparator /\ [][Next]_vars

InitDedup == InitWith(DedupWork)

SpecDedup == InitDedup /\ [][Next]_vars

InitOrder == InitWith(OrderWork)

SpecOrder == InitOrder /\ [][Next]_vars

InitExact == InitWith(ExactWork)

SpecExact == InitExact /\ [][Next]_vars

InitAccumulate == InitWith(AccumulateWork)

SpecAccumulate == InitAccumulate /\ [][Next]_vars

InitConcurrent ==
    /\ root = new_node
    /\ static_map = <<>>
    /\ last = [op |-> "none"]
    /\ log = <<>>
    /\ work = ConcurrentWork
    /\ calls = [t \in ConcurrentWork.threads |-> Idle]

SpecConcurrent == InitConcurrent /\ [][NextConcurrent]_vars

InitGuards ==
    /\ root = new_node
    /\ static_map = <<>>
    /\ last = [op |-> "none"]
    /\ log = <<>>
    /\ work = GuardWork
    /\ calls = [t \in GuardWork.threads |-> Idle]

SpecGuards == InitGuards /\ [][NextGuards]_vars

(* Fair scheduling: a thread whose call can take its next step again and   *)
(* again takes it.  parking_lot's locks hand a guard over to a waiting     *)
(* thread eventually, and every thread keeps running.  This is             *)
(* SF_vars(Proceed(t)) written out: CanStep(t) is ENABLED Proceed(t), and  *)
(* a step that changes calls[t] of a call in progress is a Proceed(t) step.*)
FairSpecGuards ==
    SpecGuards /\ \A t \in GuardWork.threads :
                     []<>CanStep(t) => []<><<Stepped(t)>>_calls

InitInterleave ==
    /\ root = new_node
    /\ static_map = <<>>
    /\ last = [op |-> "none"]
    /\ log = <<>>
    /\ work = InterleaveWork
    /\ calls = [t \in InterleaveWork.threads |-> Idle]

SpecInterleave == InitInterleave /\ [][NextConcurrent]_vars

InitGate == InitWith(GateWork)

SpecGate == InitGate /\ [][Next]_vars

InitCapture == InitWith(CaptureWork)

SpecCapture == InitCapture /\ [][Next]_vars

InitFrame == InitWith(FrameWork)

SpecFrame == InitFrame /\ [][Next]_vars

InitShare == InitWith(ShareWork)

SpecShare == InitShare /\ [][Next]_vars

InitBacktrack == InitWith(BacktrackWork)

SpecBacktrack == InitBacktrack /\ [][Next]_vars

(* all workloads *)
Init == InitAccumulate \/ InitPriority \/ InitStatic \/ InitAnyMethod \/ InitTrailing \/ InitInvalid
            \/ InitShadow \/ InitRemove \/ InitPrune
            \/ InitSeparator \/ InitDedup \/ InitOrder \/ InitExact

Spec == Init /\ [][Next]_vars

---------------------------------------------------------------------------
(* C1: static > parameter > wildcard.  With /a/x, /a/:y and /a/**:z        *)
(* inserted under one method, in any order, find_route answers /a/x with   *)
(* the literal's payload, /a/s with the parameter record and y = s, and a  *)
(* path of two or more segments after /a with the wildcard record and z    *)
(* bound to those segments joined by '/'.                                  *)
PriorityRoutes(lit, par, wild) ==
    [p \in {path_a_x, pattern_a_param, pattern_a_wildcard} |->
        IF p = path_a_x THEN lit ELSE IF p = pattern_a_param THEN par ELSE wild]

C1_Precedence ==
    \A m \in work.methods, lit \in work.payloads, par \in work.payloads, wild \in work.payloads :
        (/\ InsertedExactly(m, PriorityRoutes(lit, par, wild))
         /\ last.op = "find_route" /\ last.method = m /\ last.capture)
        => /\ last.path = path_a_x => last.result = Ok(MatchedRoute(lit, None))
           /\ last.path = path_a_s
                  => last.result = Ok(MatchedRoute(par, Binding(<<"y">>, seg_s)))
           /\ last.path = path_a_s_t
                  => last.result = Ok(MatchedRoute(wild, Binding(<<"z">>, <<"s", "/", "t">>)))
           /\ last.path = path_a_x_t
                  => last.result = Ok(MatchedRoute(wild, Binding(<<"z">>, <<"x", "/", "t">>)))

C1_Witness ==
    /\ InsertedExactly("GET", PriorityRoutes("v1", "v2", "v1"))
    /\ log[1].path = pattern_a_wildcard
    /\ last.op = "find_route" /\ last.path = path_a_s
    /\ last.result = Ok(MatchedRoute("v2", Binding(<<"y">>, seg_s)))

---------------------------------------------------------------------------
(* C2 as claimed: in every router state, right after a successful          *)
(* add_route(m, p, v) of a purely static p, find_route(m, p) returns v     *)
(* with no parameters, and find_route(m2, p) for m2 # m returns            *)
(* RouteNotFound unless a handler under "" exists for p.                   *)
JustAddedStatic ==
    /\ Len(log) > 0
    /\ Last(log).op = "add_route" /\ Last(log).result.ok
    /\ IsStaticPattern(Last(log).path)
    /\ last.op = "find_route" /\ SamePath(last.path, Last(log).path)

C2_AsClaimed ==
    JustAddedStatic =>
        /\ last.method = Last(log).method
               => last.result = Ok(MatchedRoute(Last(log).data, None))
        /\ (last.method # Last(log).method /\ LiveAdds("", Last(log).path) = {})
               => last.result = Err(RouteNotFound(last.method, last.path))

(* C2 amended: find_route(m, p) returns, with no parameters, the payload   *)
(* of the oldest record stored for (p, m), which is v when the router held *)
(* none; find_route(m2, p) for m2 # m returns RouteNotFound unless a       *)
(* record whose pattern matches p is stored under m2 or under "".          *)
C2_StaticInsertLookup ==
    JustAddedStatic =>
        /\ last.method = Last(log).method
               => /\ last.result =
                         Ok(MatchedRoute(log[Min(LiveAdds(last.method, last.path))].data, None))
                  /\ LiveAdds(last.method, last.path) = {Len(log)}
                         => last.result = Ok(MatchedRoute(Last(log).data, None))
        /\ (/\ last.method # Last(log).method
            /\ \A p \in LivePatterns(last.method) \cup LivePatterns("") :
                   ~PatternMatches(p, last.path))
               => last.result = Err(RouteNotFound(last.method, last.path))

C2_Witness ==
    /\ JustAddedStatic
    /\ Len(log) = 3 /\ Last(log).data = "v2" /\ Last(log).method = "GET"
    /\ LiveAdds("GET", path_a_x) = {2, 3}
    /\ last.method = "GET"
    /\ last.result = Ok(MatchedRoute("v1", None))

C2_WitnessOtherMethod ==
    /\ JustAddedStatic
    /\ Last(log).method = "GET" /\ last.method = "POST"
    /\ LivePatterns("") = {} /\ LivePatterns("POST") = {}
    /\ last.result = Err(RouteNotFound("POST", path_a_x))

---------------------------------------------------------------------------
(* C3: any-method preference.  Every record a lookup answers with comes    *)
(* from the list under the requested method when its node (or static-map   *)
(* entry) has one, and from the list under "" only when it has none.       *)
MethodsAtRef(ref) ==
    IF ref.in = "trie" THEN node_at(root, ref.at).methods
    ELSE Unwrap(map_get(static_map, ref.at))

PrefersMethod(ref, method) ==
    /\ ref.key \in DOMAIN MethodsAtRef(ref)
    /\ method \in DOMAIN MethodsAtRef(ref) => ref.key = method
    /\ method \notin DOMAIN MethodsAtRef(ref) => ref.key = ""

C3_WitnessFallback ==
    /\ last.op = "find_route" /\ last.method = "POST" /\ IsSome(last.hit)
    /\ Unwrap(last.hit).key = "" /\ Unwrap(last.hit).in = "static_map"

---------------------------------------------------------------------------
(* C4: optional trailing parameter.  With /a/:y? the only route, under m,  *)
(* find_route(m, /a/s) returns its record with y = s and find_route(m,     *)
(* /a/) returns the same record with no parameters.                        *)
OnlyRoute(pattern, v) == [p \in {pattern} |-> v]

C4_OptionalTrailingParam ==
    \A m \in work.methods, v \in work.payloads :
        (/\ InsertedExactly(m, OnlyRoute(pattern_a_param_opt, v))
         /\ last.op = "find_route" /\ last.method = m)
        => /\ last.path = path_a_s
                  => last.result = Ok(MatchedRoute(v, IF last.capture
                                                      THEN Binding(<<"y">>, seg_s)
                                                      ELSE None))
           /\ last.path = path_a_slash => last.result = Ok(MatchedRoute(v, None))

C4_Witness ==
    /\ InsertedExactly("GET", OnlyRoute(pattern_a_param_opt, "v1"))
    /\ last.op = "find_route" /\ last.capture /\ last.path = path_a_slash
    /\ last.result = Ok(MatchedRoute("v1", None))

---------------------------------------------------------------------------
(* C5: a trailing wildcard matches any suffix, the empty one included,     *)
(* with or without '?'.  With /a/**:z (or /a/**:z?, or /a/** and the name  *)
(* '_') the only route, find_route(m, /a/) binds the name to the empty     *)
(* string and find_route(m, /a/s/t) binds it to s/t.                       *)
WildcardName(pattern) == IF pattern = pattern_a_wildcard_unnamed THEN <<"_">> ELSE <<"z">>

C5_TrailingWildcard ==
    \A m \in work.methods, v \in work.payloads,
       pattern \in {pattern_a_wildcard, pattern_a_wildcard_opt, pattern_a_wildcard_unnamed} :
        (/\ InsertedExactly(m, OnlyRoute(pattern, v))
         /\ last.op = "find_route" /\ last.method = m /\ last.capture)
        => /\ last.path = path_a_slash
                  => last.result = Ok(MatchedRoute(v, Binding(WildcardName(pattern), <<>>)))
           /\ last.path = path_a_s
                  => last.result = Ok(MatchedRoute(v, Binding(WildcardName(pattern), seg_s)))
           /\ last.path = path_a_s_t
                  => last.result =
                         Ok(MatchedRoute(v, Binding(WildcardName(pattern), <<"s", "/", "t">>)))

C5_Witness ==
    /\ InsertedExactly("GET", OnlyRoute(pattern_a_wildcard, "v1"))
    /\ last.op = "find_route" /\ last.capture /\ last.path = path_a_slash
    /\ last.result = Ok(MatchedRoute("v1", Binding(<<"z">>, <<>>)))

C5_WitnessUnnamed ==
    /\ InsertedExactly("GET", OnlyRoute(pattern_a_wildcard_unnamed, "v1"))
    /\ last.op = "find_route" /\ last.capture /\ last.path = path_a_s_t
    /\ last.result = Ok(MatchedRoute("v1", Binding(<<"_">>, <<"s", "/", "t">>)))

---------------------------------------------------------------------------
(* Patterns as the claims about the analyzer read them *)
Segs(pattern) == split_path(normalize(pattern))

(* a segment without parameter, wildcard or optional marker *)
IsLiteral(e) == Len(e) > 0 /\ ~contains_any(e, {":", "*", "?"})

(* the positions, before the last, of the segments that begin with "**" *)
EarlyWildcards(pattern) ==
    {i \in 1..(Len(Segs(pattern)) - 1) : starts_with(Segs(pattern)[i], <<"*", "*">>)}

(* "**" or "**:name" with a name, with or without '?' *)
WellFormedWildcard(e) ==
    LET b == strip_suffix_or(e, "?")
    IN b = <<"*", "*">> \/ (Len(b) > 3 /\ SubSeq(b, 1, 3) = <<"*", "*", ":">>)

(* the positions of the segments ':' and '**:' *)
Nameless(pattern) ==
    {i \in 1..Len(Segs(pattern)) :
        strip_suffix_or(Segs(pattern)[i], "?") \in {<<":">>, <<"*", "*", ":">>}}

(* every segment before position i is a literal *)
LiteralsBefore(pattern, i) == \A j \in 1..(i - 1) : IsLiteral(Segs(pattern)[j])

WildcardMustBeLast == "wildcard (**) must be the last segment"

(* C6, as the claim states it: every add_route whose pattern has a segment *)
(* beginning with '**' before the last one returns Err(InvalidSegment)     *)
(* with the reason "wildcard (**) must be the last segment"; a pattern     *)
(* with a segment ':' or '**:' is rejected with InvalidSegment naming      *)
(* that segment.                                                           *)
C6_AsClaimed ==
    \A k \in 1..Len(log) :
        log[k].op = "add_route"
        => /\ EarlyWildcards(log[k].path) # {}
                  => /\ ~log[k].result.ok
                     /\ log[k].result.err.kind = "InvalidSegment"
                     /\ log[k].result.err.reason = WildcardMustBeLast
           /\ \A i \in Nameless(log[k].path) :
                  LiteralsBefore(log[k].path, i)
                  => /\ ~log[k].result.ok
                     /\ log[k].result.err.kind = "InvalidSegment"
                     /\ log[k].result.err.segment
                            = strip_suffix_or(Segs(log[k].path)[i], "?")

(* C6, amended: every add_route whose pattern has a segment beginning      *)
(* with '**' before the last one returns Err(InvalidSegment).  When that   *)
(* segment follows literals only, the error names it, and the reason is    *)
(* "wildcard (**) must be the last segment" if the segment is '**' or      *)
(* '**:name', but "invalid wildcard format" or "named wildcard must have   *)
(* a name" if it is malformed.  A pattern with ':' or '**:' after          *)
(* literals is rejected with InvalidSegment naming that segment.           *)
C6_WildcardMustBeLast ==
    \A k \in 1..Len(log) :
        log[k].op = "add_route"
        => /\ EarlyWildcards(log[k].path) # {}
                  => /\ ~log[k].result.ok
                     /\ log[k].result.err.kind = "InvalidSegment"
           /\ \A i \in EarlyWildcards(log[k].path) :
                  LiteralsBefore(log[k].path, i)
                  => LET e == Segs(log[k].path)[i]
                     IN /\ log[k].result.err.segment = strip_suffix_or(e, "?")
                        /\ IF WellFormedWildcard(e)
                           THEN log[k].result.err.reason = WildcardMustBeLast
                           ELSE log[k].result.err.reason
                                    \in {"invalid wildcard format",
                                         "named wildcard must have a name"}
           /\ \A i \in Nameless(log[k].path) :
                  LiteralsBefore(log[k].path, i)
                  => /\ ~log[k].result.ok
                     /\ log[k].result.err.kind = "InvalidSegment"
                     /\ log[k].result.err.segment
                            = strip_suffix_or(Segs(log[k].path)[i], "?")

(* a run that tried /**:z/a, then /a/: and then /a/**: *)
C6_Witness ==
    /\ Len(log) = 3
    /\ log[1].op = "add_route" /\ log[1].path = pattern_named_wildcard_then_a
    /\ log[1].result = Err(InvalidSegment(wildcard_z, WildcardMustBeLast))
    /\ log[2].op = "add_route" /\ log[2].path = pattern_a_colon
    /\ log[2].result.err.segment = <<":">>
    /\ log[3].op = "add_route" /\ log[3].path = pattern_a_wildcard_colon
    /\ log[3].result.err.segment = <<"*", "*", ":">>

---------------------------------------------------------------------------
(* C7: a failed insert is atomic.  A step in which add_route returns an    *)
(* error from the analyzer leaves the trie and the static map as they      *)
(* were, so every find_route and find_all_routes call returns what it      *)
(* returned before the call.                                               *)
C7_FailedInsertAtomic ==
    [][(/\ Len(log') = Len(log) + 1
        /\ last'.op = "add_route"
        /\ ~last'.result.ok)
       => /\ root' = root
          /\ static_map' = static_map
          /\ \A method \in work.lookup_methods, path \in work.paths \cup work.find_all_paths,
                capture \in BOOLEAN :
                 /\ find_route(root', static_map', method, path, capture)
                        = find_route(root, static_map, method, path, capture)
                 /\ find_all_routes(root', method, path, capture)
                        = find_all_routes(root, method, path, capture)]_vars

(* a failed insert into a router that holds a route *)
C7_Witness ==
    /\ Len(log) = 2
    /\ log[1].op = "add_route" /\ log[1].result.ok
    /\ last = log[2]
    /\ last.op = "add_route" /\ ~last.result.ok
    /\ last.result.err.kind = "InvalidSegment"
    /\ root # new_node

---------------------------------------------------------------------------
(* The handler records a router holds *)
RECURSIVE SumOver(_, _)
SumOver(f, S) ==
    IF S = {} THEN 0
    ELSE LET k == CHOOSE x \in S : TRUE IN f[k] + SumOver(f, S \ {k})

MethodsCount(methods) == SumOver([k \in DOMAIN methods |-> Len(methods[k])], DOMAIN methods)

RECURSIVE TrieCount(_)
TrieCount(node) ==
    MethodsCount(node.methods)
    + SumOver([k \in DOMAIN node.static_children |-> TrieCount(node.static_children[k])],
              DOMAIN node.static_children)
    + (IF IsSome(node.param_child) THEN TrieCount(Unwrap(node.param_child)) ELSE 0)
    + (IF IsSome(node.wildcard_child) THEN TrieCount(Unwrap(node.wildcard_child)) ELSE 0)

StaticMapCount(map) ==
    SumOver([i \in 1..Len(map) |-> MethodsCount(map[i].value)], 1..Len(map))

(* the analyzer rejects the pattern *)
Rejected(pattern) == ~build_param_entries_for_pattern_segments(Segs(pattern)).ok

(* C8, as the claim states it: remove_route called with a pattern the      *)
(* analyzer rejects returns the analyzer's InvalidSegment error and        *)
(* removes no handler record from the trie or the static map.              *)
C8_RemoveRejectsInvalid ==
    [][(/\ Len(log') = Len(log) + 1
        /\ last'.op = "remove_route"
        /\ Rejected(last'.path))
       => /\ ~last'.result.ok
          /\ last'.result.err.kind = "InvalidSegment"
          /\ TrieCount(root') = TrieCount(root)
          /\ StaticMapCount(static_map') = StaticMapCount(static_map)]_vars

(* remove_route(GET, /a/:) on a router that holds GET /a/:y returns true   *)
(* and the record is gone                                                  *)
C8_Witness ==
    /\ Len(log) = 2
    /\ log[1] = [op |-> "add_route", method |-> "GET", path |-> pattern_a_param,
                 data |-> "v1", result |-> Ok("unit")]
    /\ log[2] = [op |-> "remove_route", method |-> "GET", path |-> pattern_a_colon,
                 result |-> Ok(TRUE)]
    /\ Rejected(pattern_a_colon)
    /\ TrieCount(root) = 0

---------------------------------------------------------------------------
(* C9: remove then shadow.  With the static /a/x (payload s) and the       *)
(* parameter pattern /a/:y (payload p) inserted under one method, in       *)
(* either order, find_route on /a/x returns s with no parameters; the      *)
(* remove_route of /a/x that follows returns true, and then find_route on  *)
(* /a/x returns p with y = x; after the remove_route of /a/:y as well,     *)
(* find_route on /a/x and on /a/s returns RouteNotFound.                   *)
ShadowAdd(k, m, pattern, v) ==
    log[k] = [op |-> "add_route", method |-> m, path |-> pattern, data |-> v,
              result |-> Ok("unit")]

ShadowInserted(m, s, p) ==
    /\ Len(log) >= 2
    /\ \/ ShadowAdd(1, m, path_a_x, s) /\ ShadowAdd(2, m, pattern_a_param, p)
       \/ ShadowAdd(1, m, pattern_a_param, p) /\ ShadowAdd(2, m, path_a_x, s)

ShadowRemove(k, m, pattern) ==
    /\ Len(log) >= k
    /\ log[k].op = "remove_route" /\ log[k].method = m /\ log[k].path = pattern

FoundBy(m, path) == last.op = "find_route" /\ last.method = m /\ last.path = path

C9_RemoveThenShadow ==
    \A m \in work.methods, s \in work.payloads, p \in work.payloads :
        ShadowInserted(m, s, p)
        => /\ (Len(log) = 2 /\ FoundBy(m, path_a_x))
                  => last.result = Ok(MatchedRoute(s, None))
           /\ ShadowRemove(3, m, path_a_x)
                  => /\ log[3].result = Ok(TRUE)
                     /\ (Len(log) = 3 /\ FoundBy(m, path_a_x))
                            => last.result = Ok(MatchedRoute(p, Binding(<<"y">>, seg_x)))
                     /\ (Len(log) = 4 /\ ShadowRemove(4, m, pattern_a_param)
                         /\ (FoundBy(m, path_a_x) \/ FoundBy(m, path_a_s)))
                            => /\ ~last.result.ok
                               /\ last.result.err.kind = "RouteNotFound"

(* the lookup of /a/x after both removes *)
C9_Witness ==
    /\ ShadowInserted("GET", "v1", "v2")
    /\ ShadowRemove(3, "GET", path_a_x) /\ log[3].result = Ok(TRUE)
    /\ Len(log) = 4 /\ ShadowRemove(4, "GET", pattern_a_param)
    /\ FoundBy("GET", path_a_x)
    /\ last.result.err.kind = "RouteNotFound"

(* the lookup of /a/x between the two removes *)
C9_WitnessShadowed ==
    /\ ShadowInserted("GET", "v1", "v2")
    /\ Len(log) = 3 /\ ShadowRemove(3, "GET", path_a_x)
    /\ FoundBy("GET", path_a_x)
    /\ last.result = Ok(MatchedRoute("v2", Binding(<<"y">>, seg_x)))

---------------------------------------------------------------------------
(* The node a pattern leads to: a '**' segment follows the wildcard child, *)
(* a ':name' or '*' segment the parameter child, any other segment the     *)
(* static child of that name.  None when a child on the way is missing.    *)
RECURSIVE PatternNode(_, _, _)
PatternNode(node, segs, i) ==
    IF i > Len(segs) THEN Some(node)
    ELSE IF IsWildcardElement(segs[i])
    THEN IF IsSome(node.wildcard_child)
         THEN PatternNode(Unwrap(node.wildcard_child), segs, i + 1) ELSE None
    ELSE IF IsParamElement(segs[i])
    THEN IF IsSome(node.param_child)
         THEN PatternNode(Unwrap(node.param_child), segs, i + 1) ELSE None
    ELSE IF segs[i] \in DOMAIN node.static_children
    THEN PatternNode(node.static_children[segs[i]], segs, i + 1)
    ELSE None

(* no record is stored for the method at the pattern's node *)
NoRecordAt(method, pattern) ==
    LET n == PatternNode(root, Segs(pattern), 1)
    IN \/ ~IsSome(n)
       \/ method \notin DOMAIN Unwrap(n).methods
       \/ Len(Unwrap(n).methods[method]) = 0

C10_WitnessNoRecord ==
    /\ Len(log) = 2
    /\ log[1].op = "add_route" /\ log[1].method = "GET" /\ log[1].path = pattern_a_param
    /\ log[2] = [op |-> "remove_route", method |-> "GET", path |-> path_a,
                 result |-> Ok(FALSE)]
    /\ TrieCount(root) = 1

---------------------------------------------------------------------------
(* a node with no handler record and no child *)
Bare(node) ==
    /\ \A k \in DOMAIN node.methods : Len(node.methods[k]) = 0
    /\ DOMAIN node.static_children = {}
    /\ Len(node.param_child) = 0
    /\ Len(node.wildcard_child) = 0

(* below node, no node is bare and no method key has an empty list *)
RECURSIVE Pruned(_, _)
Pruned(node, is_root) ==
    /\ is_root \/ ~Bare(node)
    /\ \A k \in DOMAIN node.methods : Len(node.methods[k]) > 0
    /\ \A k \in DOMAIN node.static_children : Pruned(node.static_children[k], FALSE)
    /\ Len(node.param_child) = 1 => Pruned(node.param_child[1], FALSE)
    /\ Len(node.wildcard_child) = 1 => Pruned(node.wildcard_child[1], FALSE)

(* C11: the pruning invariant.  After any sequence of add_route and        *)
(* remove_route calls, failed ones included, every non-root node of the    *)
(* trie has a handler record or a child and every method key of a node     *)
(* has a non-empty record list; when the removes have taken the last       *)
(* record, every node of its branch is detached and the root is bare.      *)
C11_PruningInvariant ==
    /\ Pruned(root, TRUE)
    /\ TrieCount(root) = 0 => root = new_node

(* /a/x/t is inserted beside /a/x and removed: the node of t is detached,  *)
(* the node of x stays                                                     *)
C11_Witness ==
    /\ Len(log) = 3
    /\ log[1].op = "add_route" /\ log[1].method = "GET" /\ log[1].path = path_a_x_t
    /\ log[2].op = "add_route" /\ log[2].method = "" /\ log[2].path = path_a_x
    /\ log[3] = [op |-> "remove_route", method |-> "GET", path |-> path_a_x_t,
                 result |-> Ok(TRUE)]
    /\ DOMAIN root.static_children[seg_a].static_children[seg_x].static_children = {}
    /\ TrieCount(root) = 1

(* the only route is removed: its whole branch is detached *)
C11_WitnessBranch ==
    /\ Len(log) = 2
    /\ log[1].op = "add_route" /\ log[1].method = "GET" /\ log[1].path = path_a_x_t
    /\ log[1].result.ok
    /\ log[2] = [op |-> "remove_route", method |-> "GET", path |-> path_a_x_t,
                 result |-> Ok(TRUE)]
    /\ root = new_node

---------------------------------------------------------------------------
(* The raw strings that have the segments segs: separators before, between *)
(* and after the segments, single or repeated                              *)
RECURSIVE Spell(_, _)
Spell(segs, sep) ==
    IF Len(segs) = 1 THEN segs[1] ELSE segs[1] \o sep \o Spell(Tail(segs), sep)

Spellings(segs) ==
    {lead \o Spell(segs, sep) \o trail :
        lead \in {<<>>, <<"/">>, <<"/", "/">>},
        sep \in {<<"/">>, <<"/", "/">>},
        trail \in {<<>>, <<"/">>}}

SpelledRoutes == {<<seg_a, seg_x>>, <<seg_a, param_y>>, <<seg_a, seg_s>>}

(* two find_route results with the same payload and parameters, or both a  *)
(* miss                                                                    *)
SameAnswer(x, y) == x.ok = y.ok /\ (x.ok => x.val = y.val)

(* C12: separator insensitivity.  In every router state, for two raw       *)
(* strings with the same non-empty segments, add_route and remove_route    *)
(* give the same router state and result, find_route the same payload and  *)
(* parameters (or a miss for both) and find_all_routes the same list.      *)
C12_SeparatorInsensitivity ==
    \A segs \in SpelledRoutes :
        \A q \in Spellings(segs) :
            /\ \A m \in work.methods, v \in work.payloads :
                   add_route(root, static_map, m, q, v)
                       = add_route(root, static_map, m, Raw(segs), v)
            /\ \A m \in work.methods :
                   remove_route(root, static_map, m, q)
                       = remove_route(root, static_map, m, Raw(segs))
            /\ \A m \in work.lookup_methods, capture \in BOOLEAN :
                   /\ SameAnswer(find_route(root, static_map, m, q, capture),
                                 find_route(root, static_map, m, Raw(segs), capture))
                   /\ find_all_routes(root, m, q, capture)
                          = find_all_routes(root, m, Raw(segs), capture)

(* a//x/ is inserted, //a/:y too, /a/x/ is removed, and /a//s/ is found    *)
(* with y = s                                                              *)
C12_Witness ==
    /\ Len(log) = 3
    /\ log[1].op = "add_route" /\ log[1].path = raw_a_x_doubled /\ log[1].data = "v1"
    /\ log[2].op = "add_route" /\ log[2].path = raw_a_param_doubled /\ log[2].data = "v1"
    /\ log[3] = [op |-> "remove_route", method |-> "GET", path |-> path_a_x \o <<"/">>,
                 result |-> Ok(TRUE)]
    /\ last.op = "find_route" /\ last.path = raw_a_s_doubled
    /\ last.result = Ok(MatchedRoute("v1", Binding(<<"y">>, seg_s)))
    /\ raw_a_x_doubled \in Spellings(<<seg_a, seg_x>>)
    /\ raw_a_s_doubled \in Spellings(<<seg_a, seg_s>>)

---------------------------------------------------------------------------
C13_WitnessFindAll ==
    /\ Len(log) = 2 /\ TrieCount(root) = 2
    /\ last.op = "find_all_routes" /\ last.path = path_a_s_t
    /\ last.result = <<>>

---------------------------------------------------------------------------
(* the members of a set of numbers in ascending order *)
RECURSIVE Ascending(_)
Ascending(S) == IF S = {} THEN <<>> ELSE <<Min(S)>> \o Ascending(S \ {Min(S)})

(* the records find_all_routes collects for (method, path), in collection  *)
(* order, before de-duplication                                            *)
Collected(method, path) ==
    LET refs == find_all_recursive_ordered(root, <<>>, method, Segs(path), 0)
    IN [k \in 1..Len(refs) |-> deref(root, <<>>, refs[k])]

(* the positions of the first occurrence of each payload *)
FirstOccurrences(records) ==
    {k \in 1..Len(records) : \A j \in 1..(k - 1) : records[j].data # records[k].data}

---------------------------------------------------------------------------
(* The patterns that match /a/s, in the order the traversal reaches their  *)
(* records: the root's wildcard child, then under the static child a its   *)
(* wildcard child, its parameter child and its static child s              *)
OrderForAS == <<pattern_root_wildcard, pattern_a_wildcard, pattern_a_param, path_a_s>>

(* the payloads stored for (method, pattern), oldest first *)
PayloadsOf(method, pattern) ==
    LET at == Ascending(LiveAdds(method, pattern))
    IN [k \in 1..Len(at) |-> log[at[k]].data]

(* a sequence without the later occurrences of its elements *)
Distinct(seq) ==
    LET at == Ascending({k \in 1..Len(seq) : \A j \in 1..(k - 1) : seq[j] # seq[k]})
    IN [k \in 1..Len(at) |-> seq[at[k]]]

(* the payloads of a find_all_routes result, in order *)
PayloadList(result) == [k \in 1..Len(result) |-> result[k].data]

C15_WitnessStatic ==
    /\ Len(log) = 2
    /\ log[1].op = "add_route" /\ log[1].path = path_a_s /\ log[1].data = "v1"
    /\ log[2].op = "add_route" /\ log[2].path = pattern_a_param /\ log[2].data = "v2"
    /\ last.op = "find_all_routes" /\ last.path = path_a_s
    /\ PayloadList(last.result) = <<"v2", "v1">>

---------------------------------------------------------------------------
(* The node of a pattern, named by the kinds of its segments: patterns     *)
(* that differ in parameter names or '?' markers only share a node         *)
NodeKey(pattern) ==
    [k \in 1..Len(Segs(pattern)) |->
        IF IsWildcardElement(Segs(pattern)[k]) THEN <<"*", "*">>
        ELSE IF IsParamElement(Segs(pattern)[k]) THEN <<":">>
        ELSE Segs(pattern)[k]]

(* call i of log stored a record that no later remove_route has cleared:   *)
(* a remove clears the whole list of its method at the pattern's node      *)
Stored(i) ==
    /\ log[i].op = "add_route" /\ log[i].result.ok
    /\ \A j \in (i + 1)..Len(log) :
           ~(/\ log[j].op = "remove_route" /\ log[j].method = log[i].method
             /\ NodeKey(log[j].path) = NodeKey(log[i].path))

(* the record of call i is in the list its node offers to method: the list *)
(* for method, or the list for "" when the node has none for method        *)
Offered(method, i) ==
    /\ Stored(i)
    /\ \/ log[i].method = method
       \/ /\ log[i].method = ""
          /\ \A j \in 1..Len(log) :
                 ~(/\ Stored(j) /\ log[j].method = method
                   /\ NodeKey(log[j].path) = NodeKey(log[i].path))

PayloadSet(result) == {result[k].data : k \in 1..Len(result)}

(* C16, as the claim states it: find_all_routes(m, q) returns a payload if *)
(* and only if some stored record with that payload, offered to m by its   *)
(* node, has a pattern that matches q.                                     *)
C16_AsClaimed ==
    last.op = "find_all_routes"
    => PayloadSet(last.result) =
           {log[i].data : i \in {k \in 1..Len(log) :
                                    /\ Offered(last.method, k)
                                    /\ PatternMatches(log[k].path, last.path)}}

(* C16, amended: find_all_routes(m, q) returns a payload if and only if    *)
(* some stored record with that payload is in a list, offered to m by its  *)
(* node, in which some record has a pattern that matches q.  The records   *)
(* of /a/:y are therefore returned for /a when a record of /a/:y? is in    *)
(* the same list.                                                          *)
C16_FindAllExactness ==
    last.op = "find_all_routes"
    => LET offered == {k \in 1..Len(log) : Offered(last.method, k)}
           matching == {NodeKey(log[j].path) :
                           j \in {k \in offered : PatternMatches(log[k].path, last.path)}}
       IN PayloadSet(last.result) =
              {log[i].data : i \in {k \in offered : NodeKey(log[k].path) \in matching}}

(* /a/:y? holds v1 and /a/:y holds v2: both are returned for /a *)
C16_Witness ==
    /\ Len(log) = 2
    /\ log[1] = [op |-> "add_route", method |-> "GET", path |-> pattern_a_param_opt,
                 data |-> "v1", result |-> Ok("unit")]
    /\ log[2] = [op |-> "add_route", method |-> "GET", path |-> pattern_a_param,
                 data |-> "v2", result |-> Ok("unit")]
    /\ last.op = "find_all_routes" /\ last.path = path_a
    /\ ~PatternMatches(pattern_a_param, path_a)
    /\ PayloadList(last.result) = <<"v1", "v2">>

(* /a and /a/:y are stored and only /a/:y is returned for /a/s; the ""     *)
(* record of /a/:y is passed over for the GET record                       *)
C16_WitnessExact ==
    /\ Len(log) = 3
    /\ log[1].op = "add_route" /\ log[1].path = path_a /\ log[1].method = "GET"
    /\ log[2].op = "add_route" /\ log[2].path = pattern_a_param /\ log[2].method = ""
    /\ log[2].data = "v1"
    /\ log[3].op = "add_route" /\ log[3].path = pattern_a_param /\ log[3].method = "GET"
    /\ log[3].data = "v2"
    /\ last.op = "find_all_routes" /\ last.path = path_a_s
    /\ PayloadList(last.result) = <<"v2">>

---------------------------------------------------------------------------
(* C17: lookups never mutate.  A find_route or find_all_routes step, hit   *)
(* or miss, with or without capture, leaves the trie and the static map    *)
(* as they were, so every lookup gives after the step the result it gave   *)
(* before it.                                                              *)
C17_LookupsNeverMutate ==
    [][(/\ last'.op \in {"find_route", "find_all_routes"}
        /\ log' = log)
       => /\ root' = root
          /\ static_map' = static_map
          /\ \A method \in work.lookup_methods, path \in work.paths \cup work.find_all_paths,
                capture \in work.captures :
                 /\ find_route(root', static_map', method, path, capture)
                        = find_route(root, static_map, method, path, capture)
                 /\ find_all_routes(root', method, path, capture)
                        = find_all_routes(root, method, path, capture)]_vars

(* a find_route with capture has hit in the trie *)
C17_Witness ==
    /\ Len(log) > 0 /\ TrieCount(root) > 0
    /\ last.op = "find_route" /\ last.capture /\ last.result.ok
    /\ IsSome(last.hit) /\ Unwrap(last.hit).in = "trie"

(* a find_route without capture has missed in a router that holds a route *)
C17_WitnessMiss ==
    /\ TrieCount(root) > 0
    /\ last.op = "find_route" /\ ~last.capture /\ ~last.result.ok

---------------------------------------------------------------------------
(* the records of the method at the pattern's node *)
RecordsAt(method, pattern) ==
    LET n == PatternNode(root, Segs(pattern), 1)
    IN IF IsSome(n) /\ method \in DOMAIN Unwrap(n).methods
       THEN Unwrap(n).methods[method] ELSE <<>>

(* the records of the method under the pattern's key in the static map *)
StaticRecords(method, pattern) ==
    LET e == map_get(static_map, normalize(pattern))
    IN IF IsSome(e) /\ method \in DOMAIN Unwrap(e) THEN Unwrap(e)[method] ELSE <<>>

(* no other pattern of the workload has a record stored under the method *)
OnlyPattern(method, pattern) ==
    /\ Len(PayloadsOf(method, pattern)) > 0
    /\ \A q \in work.patterns :
           ~SamePath(q, pattern) => Len(PayloadsOf(method, q)) = 0

(* C18: insertion accumulates in order.  The successful add_route calls    *)
(* for one pattern and method since the last remove_route of that pattern  *)
(* and method, with payloads v1..vk, leave exactly k records at the        *)
(* pattern's node, in insertion order, each with the plan of the pattern,  *)
(* and the same k records with an absent plan in the static map when the   *)
(* pattern is static; find_route on a matching path then returns v1 and    *)
(* find_all_routes the distinct payloads of v1..vk in insertion order.     *)
C18_InsertionAccumulates ==
    \A m \in work.methods, p \in work.patterns :
        LET v == PayloadsOf(m, p)
            plan == build_param_entries_for_pattern_segments(Segs(p)).val
        IN /\ RecordsAt(m, p) = [k \in 1..Len(v) |-> MethodData(v[k], plan)]
           /\ IsStaticPattern(p)
              => StaticRecords(m, p) = [k \in 1..Len(v) |-> MethodData(v[k], None)]
           /\ (OnlyPattern(m, p) /\ last.method = m /\ PatternMatches(p, last.path))
              => /\ last.op = "find_route"
                    => last.result.ok /\ last.result.val.data = v[1]
                 /\ last.op = "find_all_routes"
                    => PayloadList(last.result) = Distinct(v)

(* three inserts of /a/:y with v1, v2, v1: three records, and find_all_routes  *)
(* lists v1, v2                                                            *)
C18_Witness ==
    /\ Len(log) = 3
    /\ \A i \in 1..3 : log[i].op = "add_route" /\ log[i].path = pattern_a_param
    /\ PayloadsOf("GET", pattern_a_param) = <<"v1", "v2", "v1">>
    /\ Len(RecordsAt("GET", pattern_a_param)) = 3
    /\ last.op = "find_all_routes" /\ PayloadList(last.result) = <<"v1", "v2">>

(* three inserts of the static /a/x with v2, v3, v1: find_route returns v2 *)
C18_WitnessStatic ==
    /\ Len(log) = 3
    /\ PayloadsOf("GET", path_a_x) = <<"v2", "v3", "v1">>
    /\ Len(StaticRecords("GET", path_a_x)) = 3
    /\ last.op = "find_route" /\ last.result.ok /\ last.result.val.data = "v2"

(* v1 inserted and removed, then v2 inserted: find_route returns v2 *)
C18_WitnessRemoved ==
    /\ Len(log) = 3
    /\ log[1].op = "add_route" /\ log[1].data = "v1" /\ log[1].path = path_a_x
    /\ log[2].op = "remove_route" /\ log[2].path = path_a_x /\ log[2].result.ok
    /\ log[3].op = "add_route" /\ log[3].data = "v2" /\ log[3].path = path_a_x
    /\ last.op = "find_route" /\ last.result.ok /\ last.result.val.data = "v2"

---------------------------------------------------------------------------
(* no add_route or remove_route is in progress *)
Quiescent ==
    \A t \in DOMAIN calls : calls[t].op \notin {"add_route", "remove_route"}

(* the canonical static paths: the keys of the static map and the static   *)
(* patterns of the workload                                                *)
StaticKeys ==
    {static_map[i].key : i \in 1..Len(static_map)}
        \cup {normalize(p) : p \in {q \in work.patterns : IsStaticPattern(q)}}

(* the static map has a record list for (c, method) *)
HasStaticList(method, c) ==
    LET e == map_get(static_map, c)
    IN IsSome(e) /\ method \in DOMAIN Unwrap(e)

(* the node reached by the literal segments of c has a record for method   *)
(* with an absent plan                                                     *)
HasStaticRecord(method, c) ==
    \E k \in 1..Len(RecordsAt(method, c)) : ~IsSome(RecordsAt(method, c)[k].params_map)

(* C19: static-map exactness.  In every state in which no add_route or     *)
(* remove_route is in progress the static map has a record list for        *)
(* (canonical path c, method m) if and only if the trie node reached by    *)
(* the literal segments of c has records for m with an absent plan.        *)
C19_StaticMapExact ==
    Quiescent
    => \A m \in work.methods, c \in StaticKeys :
           HasStaticList(m, c) <=> HasStaticRecord(m, c)

(* an add_route and a remove_route of /a/x have interleaved and returned:  *)
(* the record is in the trie and the static map is empty                   *)
C19_Witness ==
    /\ Quiescent
    /\ Len(log) = 2
    /\ \E i, j \in 1..2 :
           /\ log[i].op = "add_route" /\ log[i].path = path_a_x /\ log[i].result.ok
           /\ log[j].op = "remove_route" /\ log[j].path = path_a_x
    /\ HasStaticRecord("GET", normalize(path_a_x))
    /\ static_map = <<>>

(* C20: the static map never holds data missing from the trie.  In every   *)
(* state in which no add_route or remove_route is in progress every record *)
(* of the static map under (path c, method m) has an absent plan and its   *)
(* payload occurs in the list of m at the trie node reached by the literal *)
(* segments of c.                                                          *)
C20_StaticWithinTrie ==
    Quiescent
    => \A i \in 1..Len(static_map) :
           \A m \in DOMAIN static_map[i].value :
               \A k \in 1..Len(static_map[i].value[m]) :
                   LET md == static_map[i].value[m][k]
                       in_trie == RecordsAt(m, static_map[i].key)
                   IN /\ ~IsSome(md.params_map)
                      /\ \E j \in 1..Len(in_trie) : in_trie[j].data = md.data

(* two add_route calls of /a/x have interleaved and returned: the static   *)
(* map lists v1, v2 and the node v2, v1                                    *)
C20_Witness ==
    /\ Quiescent
    /\ Len(log) = 2
    /\ PayloadList(StaticRecords("GET", path_a_x)) = <<"v1", "v2">>
    /\ PayloadList(RecordsAt("GET", path_a_x)) = <<"v2", "v1">>

(* an add_route has interleaved with a remove_route and a later add_route  *)
(* has stored v2 in both places                                            *)
C20_WitnessAfterRemove ==
    /\ Quiescent
    /\ Len(log) = 3
    /\ \E i \in 1..3 : log[i].op = "remove_route" /\ log[i].result = Ok(TRUE)
    /\ PayloadList(StaticRecords("GET", path_a_x)) = <<"v2">>
    /\ PayloadList(RecordsAt("GET", path_a_x)) = <<"v1", "v2">>

---------------------------------------------------------------------------
(* a writer is between the two steps of its change to the trie *)
MidTrie(c) ==
    \/ c.op = "add_route" /\ c.pc = "root_push"
    \/ c.op = "remove_route" /\ c.pc = "root_prune"

(* a writer is between the two steps of its change to the static map *)
MidStatic(c) ==
    \/ c.op = "add_route" /\ c.pc = "static_push"
    \/ c.op = "remove_route" /\ c.pc = "static_shift"

(* no entry of the static map is without a method or has an empty list *)
StaticWhole(map) ==
    \A i \in 1..Len(map) :
        /\ DOMAIN map[i].value # {}
        /\ \A m \in DOMAIN map[i].value : Len(map[i].value[m]) > 0

(* C21: concurrent readers never observe partial mutations.  While a       *)
(* find_route or find_all_routes holds the root's read guard the trie is   *)
(* the one it found when it took the guard, no writer is between the steps *)
(* of its change, and the trie has no node chain without a record and no   *)
(* cleared branch that is not pruned; while a find_route holds the static  *)
(* map's read guard the same holds for the static map.                     *)
C21_NoPartialReads ==
    \A t \in DOMAIN calls :
        /\ holds_root_read(calls[t])
           => /\ root = calls[t].seen
              /\ Pruned(root, TRUE)
              /\ \A u \in DOMAIN calls : ~MidTrie(calls[u])
        /\ holds_static_read(calls[t])
           => /\ static_map = calls[t].seen
              /\ StaticWhole(static_map)
              /\ \A u \in DOMAIN calls : ~MidStatic(calls[u])

(* a lookup holds the root's read guard on a trie with a record while an   *)
(* add_route that has updated the static map waits for the root            *)
C21_Witness ==
    \E t, u \in DOMAIN calls :
        /\ holds_root_read(calls[t]) /\ TrieCount(root) > 0
        /\ calls[u].op = "add_route" /\ calls[u].pc = "root_acquire"
        /\ is_purely_static(calls[u].path)
        /\ Len(StaticRecords("GET", path_a_x)) = 2

(* a remove_route has cleared the list and not yet pruned the branch while *)
(* a find_route waits for the root                                         *)
C21_WitnessPartial ==
    \E t, u \in DOMAIN calls :
        /\ calls[u].op = "remove_route" /\ calls[u].pc = "root_prune"
        /\ ~Pruned(root, TRUE)
        /\ calls[t].op = "find_route" /\ calls[t].pc = "root_acquire"

(* a find_route waits for the static map while an add_route has created    *)
(* the entry and not yet pushed the record                                 *)
C21_WitnessStatic ==
    \E t, u \in DOMAIN calls :
        /\ calls[u].op = "add_route" /\ calls[u].pc = "static_push"
        /\ ~StaticWhole(static_map)
        /\ calls[t].op = "find_route" /\ calls[t].pc = "static_acquire"

---------------------------------------------------------------------------
(* the next step of thread t takes a guard that thread u's guard excludes *)
WaitsFor(t, u) ==
    /\ t # u
    /\ calls[t].op # "idle"
    /\ \/ /\ calls[t].pc = "root_acquire"
          /\ \/ holds_root_write(calls[u])
             \/ calls[t].op \in {"add_route", "remove_route"} /\ holds_root_read(calls[u])
       \/ /\ calls[t].pc = "static_acquire"
          /\ \/ holds_static_write(calls[u])
             \/ calls[t].op \in {"add_route", "remove_route"} /\ holds_static_read(calls[u])

RECURSIVE WaitsForWithin(_, _)
WaitsForWithin(S, n) ==
    IF n = 0 THEN S
    ELSE WaitsForWithin(S \cup {u \in DOMAIN calls : \E t \in S : WaitsFor(t, u)}, n - 1)

(* the threads that thread t waits for, directly or through other waiters *)
Blockers(t) ==
    WaitsForWithin({u \in DOMAIN calls : WaitsFor(t, u)}, Cardinality(DOMAIN calls))

Blocked(t) == \E u \in DOMAIN calls : WaitsFor(t, u)

(* no thread waits for itself through a chain of waiters, and when a call  *)
(* is in progress some call in progress can take its next step             *)
NoWaitCycle ==
    /\ \A t \in DOMAIN calls : t \notin Blockers(t)
    /\ (\E t \in DOMAIN calls : calls[t] # Idle)
       => \E t \in DOMAIN calls : calls[t] # Idle /\ ~Blocked(t)

(* C22: deadlock freedom.  In no reachable state do threads wait for the   *)
(* trie guard and the static-map guard in a cycle, and under fair          *)
(* scheduling every call that has started returns.                         *)
C22_DeadlockFreedom ==
    /\ []NoWaitCycle
    /\ \A t \in GuardWork.threads : (calls[t] # Idle) ~> (calls[t] = Idle)

(* a remove_route holds the root's guard and waits for the static map's,   *)
(* which an add_route holds                                                *)
C22_Witness ==
    \E t, u \in DOMAIN calls :
        /\ calls[t].op = "remove_route" /\ calls[t].pc = "static_acquire"
        /\ calls[u].op = "add_route" /\ holds_static_write(calls[u])
        /\ WaitsFor(t, u) /\ ~Blocked(u)

---------------------------------------------------------------------------
(* the add_route calls that have begun: those that returned Ok and those   *)
(* in progress                                                             *)
BegunAdds(lg, cs) ==
    {[method |-> lg[i].method, path |-> lg[i].path, data |-> lg[i].data] :
        i \in {j \in 1..Len(lg) : lg[j].op = "add_route" /\ lg[j].result.ok}}
    \cup {[method |-> cs[t].method, path |-> cs[t].path, data |-> cs[t].data] :
            t \in {u \in DOMAIN cs : cs[u].op = "add_route"}}

(* a remove_route(method, pattern) has returned, no add_route for the      *)
(* pattern and method has returned after it and none is in progress        *)
RemovedQuiet(lg, cs, method, pattern) ==
    /\ \E i \in 1..Len(lg) :
           /\ lg[i].op = "remove_route" /\ lg[i].method = method
           /\ SamePath(lg[i].path, pattern)
           /\ \A j \in (i + 1)..Len(lg) :
                  ~(/\ lg[j].op = "add_route" /\ lg[j].method = method
                    /\ SamePath(lg[j].path, pattern))
    /\ \A t \in DOMAIN cs :
           ~(/\ cs[t].op = "add_route" /\ cs[t].method = method
             /\ SamePath(cs[t].path, pattern))

(* the payload was supplied to add_route under (method, pattern) only *)
StoredOnlyUnder(lg, cs, data, method, pattern) ==
    \A a \in BegunAdds(lg, cs) :
        a.data = data => a.method = method /\ SamePath(a.path, pattern)

(* this step is the return of a find_route *)
FindRouteReturns ==
    \E t \in DOMAIN calls : calls[t].op = "find_route" /\ calls'[t] = Idle

(* once a remove_route has returned and no add_route for its pattern and   *)
(* method is in progress or returned after it, the find_route that returns *)
(* does not return a payload stored under that pattern and method only     *)
NoneAfterRemove ==
    \A m \in work.methods, p \in work.patterns :
        (RemovedQuiet(log', calls', m, p) /\ last'.result.ok)
        => ~StoredOnlyUnder(log', calls', last'.result.val.data, m, p)

(* C23, as the claim states it: a find_route(m, q) that returns a payload  *)
(* returns one supplied to an add_route call, begun before the lookup      *)
(* returned, whose pattern matches q and whose method is m or ""; and      *)
(* after a remove_route has returned with no add_route for its pattern and *)
(* method in progress or started afterwards, no payload stored only under  *)
(* that pattern and method is returned.                                    *)
C23_AsClaimed ==
    [][FindRouteReturns
       => /\ last'.result.ok
             => \E a \in BegunAdds(log', calls') :
                    /\ a.data = last'.result.val.data
                    /\ a.method \in {last'.method, ""}
                    /\ PatternMatches(a.path, last'.path)
          /\ NoneAfterRemove]_vars

(* C23: no false positive under interleaving.  A find_route(m, q) that     *)
(* returns a payload returns one supplied to an add_route call, begun      *)
(* before the lookup returned, whose method is m or "" and whose pattern   *)
(* matches q or leads to the node of a begun add_route of the same method  *)
(* whose pattern matches q; and after a remove_route has returned with no  *)
(* add_route for its pattern and method in progress or started afterwards, *)
(* no payload stored only under that pattern and method is returned.       *)
C23_NoFalsePositive ==
    [][FindRouteReturns
       => /\ last'.result.ok
             => \E a, b \in BegunAdds(log', calls') :
                    /\ a.data = last'.result.val.data
                    /\ a.method \in {last'.method, ""}
                    /\ b.method = a.method
                    /\ NodeKey(b.path) = NodeKey(a.path)
                    /\ PatternMatches(b.path, last'.path)
          /\ NoneAfterRemove]_vars

(* a find_route has returned from the static map the payload of an         *)
(* add_route that has not yet reached the trie                             *)
C23_Witness ==
    /\ last.op = "find_route" /\ last.result.ok
    /\ Unwrap(last.hit).in = "static_map"
    /\ TrieCount(root) = 0
    /\ \E t \in DOMAIN calls :
           calls[t].op = "add_route" /\ calls[t].data = last.result.val.data

(* a find_route has missed after add_route and remove_route of /a have     *)
(* both returned                                                           *)
C23_WitnessRemoved ==
    /\ Len(log) = 2
    /\ log[1].op = "add_route" /\ log[1].path = path_a
    /\ log[2].op = "remove_route" /\ log[2].path = path_a /\ log[2].result = Ok(TRUE)
    /\ RemovedQuiet(log, calls, "GET", path_a)
    /\ last.op = "find_route" /\ ~last.result.ok

---------------------------------------------------------------------------
(* find_route has answered with a record of the parameter child of the     *)
(* node at which the path was exhausted (terminal case, step 2)            *)
GateHit ==
    /\ last.op = "find_route" /\ IsSome(last.hit)
    /\ Unwrap(last.hit).in = "trie"
    /\ Len(Unwrap(last.hit).at) = Len(Segs(last.path)) + 1
    /\ Unwrap(last.hit).at[Len(Unwrap(last.hit).at)] = ParamLink

(* the list the parameter child of the path's node offers to the method,   *)
(* empty when the node has a record of its own for the method or no such   *)
(* child                                                                   *)
GateList ==
    LET n == PatternNode(root, Segs(last.path), 1)
    IN IF IsSome(n) /\ ~IsSome(get_or_any(Unwrap(n).methods, last.method))
          /\ IsSome(Unwrap(n).param_child)
       THEN LET child == Unwrap(Unwrap(n).param_child)
                sel == get_or_any(child.methods, last.method)
            IN IF IsSome(sel) THEN child.methods[Unwrap(sel)] ELSE <<>>
       ELSE <<>>

(* C24, as the claim states it: when the path is exhausted at a node       *)
(* without a record for the method, find_route returns a record of the     *)
(* node's parameter child only if the returned record's own pattern ends   *)
(* in an optional element.                                                 *)
C24_AsClaimed ==
    GateHit => is_handler_for_optional_pattern(deref(root, static_map, Unwrap(last.hit)))

(* C24: the optional-last-element gate.  When the path is exhausted at a   *)
(* node without a record for the method, find_route returns a record of    *)
(* the node's parameter child exactly when some record of the child's list *)
(* has a pattern that ends in an optional element, and then it returns the *)
(* first record of that list; when every record there has a non-optional   *)
(* pattern such as /a/:y, none is returned for the shorter path /a.        *)
C24_OptionalGate ==
    last.op = "find_route"
    => /\ GateHit
          <=> \E k \in 1..Len(GateList) : is_handler_for_optional_pattern(GateList[k])
       /\ GateHit
          => /\ Unwrap(last.hit).i = 1
             /\ last.result = Ok(MatchedRoute(GateList[1].data,
                                     extract_all_params(Segs(last.path),
                                                        GateList[1].params_map)))

(* /a/:y with v1, then /a/:y? with v2: find_route on /a returns v1 *)
C24_Witness ==
    /\ Len(log) = 2
    /\ log[1].op = "add_route" /\ log[1].path = pattern_a_param /\ log[1].data = "v1"
    /\ log[2].op = "add_route" /\ log[2].path = pattern_a_param_opt /\ log[2].data = "v2"
    /\ last.op = "find_route" /\ last.path = path_a
    /\ GateHit /\ last.result.val.data = "v1"

(* only /a/:y is stored: find_route on /a misses *)
C24_WitnessClosed ==
    /\ Len(log) = 1
    /\ log[1].op = "add_route" /\ log[1].path = pattern_a_param
    /\ last.op = "find_route" /\ last.path = path_a
    /\ Len(GateList) = 1 /\ ~last.result.ok

---------------------------------------------------------------------------
(* an add_route of a purely static pattern that has updated the static map *)
(* and not yet the trie                                                    *)
BetweenUpdates(c) ==
    /\ c.op = "add_route" /\ c.pc = "root_acquire"
    /\ is_purely_static(c.path)

HoldsAnyGuard(c) ==
    \/ holds_static_write(c) \/ holds_root_write(c)
    \/ holds_static_read(c) \/ holds_root_read(c)

(* C25: add_route of a purely static pattern holds the static map's write  *)
(* guard and the root's write guard together for the whole insert: between *)
(* the static-map update and the trie update it holds both, and no other   *)
(* thread holds a guard on either.                                         *)
C25_HoldsBothGuards ==
    \A t \in DOMAIN calls :
        BetweenUpdates(calls[t])
        => /\ holds_static_write(calls[t]) /\ holds_root_write(calls[t])
           /\ \A u \in DOMAIN calls \ {t} : ~HoldsAnyGuard(calls[u])

(* between the two updates of an add_route of /a/x another thread's        *)
(* remove_route of /a/x holds the root's write guard and the static map's  *)
(* write guard and has removed the record the insert stored there          *)
C25_Witness ==
    \E t, u \in DOMAIN calls :
        /\ t # u
        /\ BetweenUpdates(calls[t]) /\ calls[t].path = path_a_x
        /\ calls[u].op = "remove_route" /\ calls[u].path = path_a_x
        /\ holds_root_write(calls[u]) /\ holds_static_write(calls[u])
        /\ Len(StaticRecords("GET", path_a_x)) = 0

---------------------------------------------------------------------------
(* the directive binds its name over the segments S *)
Binds(e, S) == e.kind = "Wildcard" \/ e.idx < Len(S)

(* the value it binds: the segment at its index, or the segments from its  *)
(* start joined by '/', the empty string when there is none                *)
BoundValue(e, S) ==
    IF e.kind = "Index" THEN S[e.idx + 1]
    ELSE IF e.idx < Len(S) THEN join(SubSeq(S, e.idx + 1, Len(S)), <<"/">>)
    ELSE <<>>

(* the bindings of a plan over S, a later directive of a name replacing an *)
(* earlier one; absent when the plan is absent or binds nothing            *)
Bindings(S, plan) ==
    IF ~IsSome(plan) THEN None
    ELSE LET entries == Unwrap(plan)
             binding == {k \in 1..Len(entries) : Binds(entries[k], S)}
             names == {entries[k].name : k \in binding}
             latest(n) == CHOOSE k \in binding :
                              /\ entries[k].name = n
                              /\ \A j \in binding : entries[j].name = n => j <= k
         IN IF names = {} THEN None
            ELSE Some([n \in names |-> BoundValue(entries[latest(n)], S)])

CapturedAs(params, capture, S, record) ==
    params = IF capture THEN Bindings(S, record.params_map) ELSE None

C26_WitnessEmpty ==
    /\ last.op = "find_all_routes" /\ last.capture /\ last.path = path_a
    /\ \E j, k \in 1..Len(last.result) :
           /\ last.result[j].params = Some([n \in {<<"z">>} |-> <<>>])
           /\ last.result[k].params = None
           /\ IsSome(deref(root, <<>>, last.hits[k]).params_map)

(* capture = false on a hit whose plan would bind *)
C26_WitnessNoCapture ==
    /\ last.op = "find_route" /\ ~last.capture /\ last.result.ok
    /\ last.result.val.params = None
    /\ IsSome(Bindings(Segs(last.path), deref(root, static_map, Unwrap(last.hit)).params_map))

---------------------------------------------------------------------------
(* the child link a pattern element selects *)
LinkOf(e) ==
    IF IsWildcardElement(e) THEN WildcardLink
    ELSE IF IsParamElement(e) THEN ParamLink
    ELSE StaticLink(e)

(* the place of a pattern's terminal node *)
AtOf(pattern) == [k \in 1..Len(Segs(pattern)) |-> LinkOf(Segs(pattern)[k])]

(* every record list of the trie below node, with its place and method key *)
RECURSIVE Lists(_, _)
Lists(node, at) ==
    {[at |-> at, key |-> k, records |-> node.methods[k]] : k \in DOMAIN node.methods}
    \cup UNION {Lists(node.static_children[seg], Append(at, StaticLink(seg))) :
                    seg \in DOMAIN node.static_children}
    \cup (IF IsSome(node.param_child)
          THEN Lists(Unwrap(node.param_child), Append(at, ParamLink)) ELSE {})
    \cup (IF IsSome(node.wildcard_child)
          THEN Lists(Unwrap(node.wildcard_child), Append(at, WildcardLink)) ELSE {})

(* every record list of the static map, with its path and method key *)
StaticLists(map) ==
    UNION {{[at |-> map[i].key, key |-> k, records |-> map[i].value[k]] :
                k \in DOMAIN map[i].value} : i \in 1..Len(map)}

(* the list is the one remove_route(method, pattern) clears *)
Cleared(l, method, pattern) == l.at = AtOf(pattern) /\ l.key = method

ClearedStatic(l, method, pattern) == l.at = normalize(pattern) /\ l.key = method

(* the reference points into a list that remove_route(method, pattern)     *)
(* clears                                                                  *)
AnsweredByCleared(ref, method, pattern) ==
    /\ ref.key = method
    /\ IF ref.in = "trie" THEN ref.at = AtOf(pattern) ELSE ref.at = normalize(pattern)

(* the step is a remove_route that returned Ok(true) *)
RemovedSome ==
    /\ Len(log') = Len(log) + 1
    /\ last'.op = "remove_route" /\ last'.result = Ok(TRUE)

(* what the call removes and what it leaves: the cleared lists are gone    *)
(* with their keys, every other list is at its place with its records, no  *)
(* node with a record or a child is detached                               *)
RemoveEffect ==
    LET m == last'.method
        p == last'.path
    IN /\ Lists(root', <<>>) = {l \in Lists(root, <<>>) : ~Cleared(l, m, p)}
       /\ StaticLists(static_map')
              = {l \in StaticLists(static_map) : ~ClearedStatic(l, m, p)}
       /\ \/ \E l \in Lists(root, <<>>) : Cleared(l, m, p)
          \/ \E l \in StaticLists(static_map) : ClearedStatic(l, m, p)
       /\ Pruned(root', TRUE)

(* the lookups that were not answered from a cleared list return what they *)
(* returned before                                                         *)
KeptIfNotAnswered ==
    LET m == last'.method
        p == last'.path
    IN /\ \A lm \in work.lookup_methods, q \in work.paths, capture \in work.captures :
              LET hit == find_route_hit(root, static_map, lm, q)
              IN (IsSome(hit) => ~AnsweredByCleared(Unwrap(hit), m, p))
                 => find_route(root', static_map', lm, q, capture)
                        = find_route(root, static_map, lm, q, capture)
       /\ \A lm \in work.lookup_methods, q \in work.find_all_paths,
             capture \in work.captures :
              LET hits == find_all_routes_hits(root, lm, q)
              IN (\A k \in 1..Len(hits) : ~AnsweredByCleared(hits[k], m, p))
                 => find_all_routes(root', lm, q, capture)
                        = find_all_routes(root, lm, q, capture)

(* at the terminal node of the pattern, or in its static-map entry, the    *)
(* lookup method selects the list under method                            *)
SelectsCleared(lookup_method, method, pattern) ==
    LET n == PatternNode(root, Segs(pattern), 1)
        e == map_get(static_map, normalize(pattern))
    IN \/ IsSome(n) /\ get_or_any(Unwrap(n).methods, lookup_method) = Some(method)
       \/ IsSome(e) /\ get_or_any(Unwrap(e), lookup_method) = Some(method)

(* the lookups whose method does not select a cleared list return what     *)
(* they returned before                                                    *)
KeptIfNotSelected ==
    LET m == last'.method
        p == last'.path
    IN /\ \A lm \in work.lookup_methods, q \in work.paths, capture \in work.captures :
              ~SelectsCleared(lm, m, p)
              => find_route(root', static_map', lm, q, capture)
                     = find_route(root, static_map, lm, q, capture)
       /\ \A lm \in work.lookup_methods, q \in work.find_all_paths,
             capture \in work.captures :
              ~SelectsCleared(lm, m, p)
              => find_all_routes(root', lm, q, capture)
                     = find_all_routes(root, lm, q, capture)

(* C27, as the claim states it: a remove_route(m, p) that returns Ok(true) *)
(* removes the whole record list under m at p's terminal node and in p's   *)
(* static-map entry, leaves every other list and every node that still has *)
(* a record or a child, and every lookup that was not answered by the      *)
(* removed records returns the same result as before.                      *)
C27_AsClaimed == [][RemovedSome => RemoveEffect /\ KeptIfNotAnswered]_vars

(* C27: remove granularity and frame.  A remove_route(m, p) that returns   *)
(* Ok(true) removes the whole record list under m at p's terminal node and *)
(* under m in p's static-map entry, keys included; every other list of the *)
(* trie and of the static map stays at its place with its records, no node *)
(* that still has a record or a child is detached, and every lookup whose  *)
(* method does not select the cleared list at that node returns what it    *)
(* returned before.                                                        *)
C27_RemoveFrame == [][RemovedSome => RemoveEffect /\ KeptIfNotSelected]_vars

(* /a/x holds two GET records; remove_route(GET, /a/x) takes both *)
C27_Witness ==
    /\ Len(log) = 3
    /\ \A i \in 1..2 : log[i].op = "add_route" /\ log[i].path = path_a_x
                       /\ log[i].method = "GET"
    /\ last = [op |-> "remove_route", method |-> "GET", path |-> path_a_x,
               result |-> Ok(TRUE)]
    /\ root = new_node /\ static_map = <<>>

(* /a/x holds a GET record and one under ""; remove_route(GET, /a/x)       *)
(* leaves the other                                                        *)
C27_WitnessOtherMethod ==
    /\ Len(log) = 3
    /\ \A i \in 1..2 : log[i].op = "add_route" /\ log[i].path = path_a_x
    /\ log[1].method = "GET" /\ log[2].method = ""
    /\ last = [op |-> "remove_route", method |-> "GET", path |-> path_a_x,
               result |-> Ok(TRUE)]
    /\ Lists(root, <<>>) = {[at |-> AtOf(path_a_x), key |-> "",
                             records |-> <<MethodData(log[2].data, None)>>]}
    /\ StaticLists(static_map) = {[at |-> normalize(path_a_x), key |-> "",
                                   records |-> <<MethodData(log[2].data, None)>>]}

(* the last record of /a/:y is removed: its node is detached, /a/x stays *)
C27_WitnessPruned ==
    /\ Len(log) = 3
    /\ log[1].op = "add_route" /\ log[1].path = path_a_x
    /\ log[2].op = "add_route" /\ log[2].path = pattern_a_param
    /\ last = [op |-> "remove_route", method |-> log[2].method, path |-> pattern_a_param,
               result |-> Ok(TRUE)]
    /\ {l.at : l \in Lists(root, <<>>)} = {AtOf(path_a_x)}
    /\ ~IsSome(node_at(root, <<StaticLink(seg_a)>>).param_child)

(* GET /a/:y and "" /a/:y? share a node; once the GET list is removed a    *)
(* find_route(GET, /a) that missed is answered from the list under ""      *)
C27_WitnessExposed ==
    /\ Len(log) = 3
    /\ log[1].op = "add_route" /\ log[1].method = "GET" /\ log[1].path = pattern_a_param
    /\ log[2].op = "add_route" /\ log[2].method = "" /\ log[2].path = pattern_a_param_opt
    /\ log[3] = [op |-> "remove_route", method |-> "GET", path |-> pattern_a_param,
                 result |-> Ok(TRUE)]
    /\ last.op = "find_route" /\ last.method = "GET" /\ last.path = path_a
    /\ last.result.ok /\ last.result.val.data = log[2].data

---------------------------------------------------------------------------
(* the calls among the first n of log whose record is at the node of key:  *)
(* the inserts with that node key since the last remove_route with it      *)
RECURSIVE InsertedAt(_, _)
InsertedAt(key, n) ==
    IF n = 0 THEN <<>>
    ELSE IF NodeKey(log[n].path) # key THEN InsertedAt(key, n - 1)
    ELSE IF log[n].op = "remove_route" THEN <<>>
    ELSE IF log[n].result.ok THEN Append(InsertedAt(key, n - 1), n)
    ELSE InsertedAt(key, n - 1)

(* the name a pattern of the workload gives to its last element *)
OwnName(pattern) ==
    IF pattern \in {pattern_a_param, pattern_a_param_opt} THEN <<"y">>
    ELSE IF pattern = pattern_a_param_w THEN <<"w">>
    ELSE IF pattern = pattern_a_wildcard THEN <<"z">>
    ELSE <<"_">>

(* the records at the place are those of the calls, in their order, each   *)
(* with the name of its own pattern                                        *)
HoldsInserted(at, calls_at) ==
    IF Len(calls_at) = 0
    THEN \A l \in Lists(root, <<>>) : l.at # at
    ELSE \E l \in Lists(root, <<>>) :
             /\ l.at = at /\ l.key = "GET"
             /\ Len(l.records) = Len(calls_at)
             /\ \A k \in 1..Len(calls_at) :
                    /\ l.records[k].data = log[calls_at[k]].data
                    /\ Len(Unwrap(l.records[k].params_map)) = 1
                    /\ Unwrap(l.records[k].params_map)[1].name = OwnName(log[calls_at[k]].path)

C28_WitnessRemoved ==
    /\ Len(log) = 3
    /\ log[1].path = pattern_a_param_unnamed /\ log[1].result.ok
    /\ log[2].path = pattern_a_param_opt /\ log[2].result.ok
    /\ last = [op |-> "remove_route", method |-> "GET", path |-> pattern_a_param_x,
               result |-> Ok(TRUE)]
    /\ root = new_node

(* /a/** and /a/**:z share the wildcard node *)
C28_WitnessWildcard ==
    /\ Len(log) = 2
    /\ log[1].path = pattern_a_wildcard_unnamed /\ log[2].path = pattern_a_wildcard
    /\ Len(RecordsAt("GET", pattern_a_wildcard)) = 2
    /\ last.op = "find_route"
    /\ last.result.val.params = Some([n \in {<<"_">>} |-> seg_s])

---------------------------------------------------------------------------
(* find_route with Step 1 skipped: the walk of the trie alone *)
TrieWalkAlone(method, path, capture) == find_route(root, <<>>, method, path, capture)

ShortcutMethods == {"GET", "POST", ""}

ShortcutPaths == {path_a_x, path_a}

(* C29: the static fast path is a pure shortcut.  In every state reached   *)
(* by a sequential history of add_route and remove_route calls,            *)
(* find_route(m, q, capture) returns the result, payload and params or     *)
(* RouteNotFound, that the walk of the trie alone returns.                 *)
C29_FastPathShortcut ==
    /\ \A method \in ShortcutMethods, path \in ShortcutPaths, capture \in BOOLEAN :
           find_route(root, static_map, method, path, capture)
               = TrieWalkAlone(method, path, capture)
    /\ last.op = "find_route"
       => last.result = TrieWalkAlone(last.method, last.path, last.capture)

(* a find_route answered from the static map while /a/:y is stored too and *)
(* the list of /a/x holds two records                                      *)
C29_Witness ==
    /\ last.op = "find_route" /\ last.path = path_a_x /\ last.method = "GET"
    /\ IsSome(last.hit) /\ Unwrap(last.hit).in = "static_map"
    /\ Len(StaticRecords(Unwrap(last.hit).key, path_a_x)) = 2
    /\ IsSome(PatternNode(root, Segs(pattern_a_param), 1))

(* after remove_route of /a/x the fast path misses and /a/:y answers *)
C29_WitnessMiss ==
    /\ Len(log) = 3
    /\ log[3].op = "remove_route" /\ log[3].result = Ok(TRUE)
    /\ last.op = "find_route" /\ last.path = path_a_x
    /\ IsSome(last.hit) /\ Unwrap(last.hit).in = "trie"
    /\ static_map = <<>>

---------------------------------------------------------------------------
AgreeMethods == {"GET"}

AgreePaths == {path_a_x_s, path_a_x_t, path_a}

(* some stored record that its node offers to the method has a pattern     *)
(* that matches the path                                                   *)
SomePatternMatches(method, path) ==
    \E k \in 1..Len(log) : Offered(method, k) /\ PatternMatches(log[k].path, path)

C30_WitnessMiss ==
    /\ Len(log) = 1 /\ log[1].op = "add_route" /\ log[1].path = path_a_x_t
    /\ last.op = "find_route" /\ last.path = path_a_x_s
    /\ ~last.result.ok
    /\ find_all_routes(root, "GET", path_a_x_s, TRUE) = <<>>

(* the static branch fails and there is no parameter child: the wildcard   *)
(* of /a/**:z answers                                                      *)
C30_WitnessWildcard ==
    /\ Len(log) = 3
    /\ \A i \in 1..3 : log[i].op = "add_route" /\ log[i].method = "GET"
    /\ log[1].path = path_a_x_t /\ log[2].path = path_a_x_t
    /\ log[3].path = pattern_a_wildcard /\ log[3].data = "v2"
    /\ log[1].data = "v1" /\ log[2].data = "v1"
    /\ last.op = "find_route" /\ last.path = path_a_x_s
    /\ last.result = Ok(MatchedRoute("v2", Some([n \in {<<"z">>} |-> <<"x", "/", "s">>])))

=============================================================================
